---- MODULE Spec2Model ----
(***************************************************************************)
(* Model of the BC Test Runner process bridge                              *)
(* (src/src/powershell/PowerShellRunner.ts, side-channel variant, lines    *)
(* 1-701) together with the PowerShell module functions it invokes         *)
(* (src/unnamed/part_001).                                                 *)
(*                                                                         *)
(* Text (stdout, file content) is a sequence of tokens; JSON.parse and     *)
(* ConvertTo-Json work on those tokens.  Payload values (Data, Error, ...) *)
(* are opaque atoms.  The wall-clock field `duration` of a result is not   *)
(* modelled.                                                               *)
(***************************************************************************)
EXTENDS Integers, Sequences, FiniteSets, Bags, TLC

\* ------------------------------------------------------------------ bounds
MaxProcs == 2
MaxCancels == 2
MaxStdout == 1
NumData == 2
NumErr == 2
MaxString == 2
MaxText == 4
MaxEmits == 2
MaxEvents == 2
MaxLoads == 2
MaxRefreshes == 2
MaxRuns == 2
MaxApps == 2
MaxFailures == 2

\* ------------------------------------------------------------------ values
Undef == "undefined"

DataNames == <<"d1", "d2", "d3", "d4">>
ErrNames == <<"e1", "e2", "e3", "e4">>
DataVals == {DataNames[i] : i \in 1..NumData}
ErrVals == {ErrNames[i] : i \in 1..NumErr}

\* -------------------------------------------------------- test-run payload
\* Invoke-BCTests: a run succeeded when no test failed and some test ran.
RunSuccess(total, failed) == failed = 0 /\ total > 0

\* The object Invoke-BCExecuteTestsFromJson returns for a test run.
TestExecutionResult(total, passed, failed, failures) ==
  [Success |-> RunSuccess(total, failed),
   Summary |-> [Total |-> total, Passed |-> passed, Failed |-> failed,
                Skipped |-> total - passed - failed],
   Failures |-> failures]

FailureRecord(n) == [Codeunit |-> "C", Method |-> n, Error |-> "E"]

\* What each payload atom stands for: all passed, two tests failed, one test
\* failed, no test ran.
TestRunOf ==
  [d \in {DataNames[i] : i \in 1..Len(DataNames)} |->
     CASE d = "d1" -> TestExecutionResult(10, 10, 0, <<>>)
       [] d = "d2" -> TestExecutionResult(10, 8, 2,
                                          <<FailureRecord("M1"), FailureRecord("M2")>>)
       [] d = "d3" -> TestExecutionResult(3, 2, 1, <<FailureRecord("M1")>>)
       [] OTHER -> TestExecutionResult(0, 0, 0, <<>>)]

\* ------------------------------------------------------------------ tokens
Tok(t, k, v) == [t |-> t, k |-> k, v |-> v]
LBrace == Tok("{", "", "")
RBrace == Tok("}", "", "")
Comma == Tok(",", "", "")
Ws == Tok("ws", "", "")
NullTok == Tok("null", "", "")
NumTok == Tok("num", "", "")
Noise == Tok("text", "", "noise")
Marker == Tok("text", "", "##RESULT_WRITTEN##")
Field(k, v) == Tok("field", k, v)

Keys == <<"Success", "Data", "Error", "Type", "StackTrace", "TargetObject",
          "FullyQualifiedErrorId">>
KeySet == {Keys[i] : i \in 1..Len(Keys)}

\* A document (hashtable / parsed object): key -> value, Undef = key absent.
EmptyObj == [k \in KeySet |-> Undef]

Max(S) == CHOOSE x \in S : \A y \in S : y <= x

\* ConvertTo-Json of a hashtable: "{" field ("," field)* "}".
RECURSIVE FieldList(_, _)
FieldList(obj, i) ==
  IF i > Len(Keys) THEN <<>>
  ELSE LET rest == FieldList(obj, i + 1)
       IN IF obj[Keys[i]] = Undef THEN rest
          ELSE IF rest = <<>> THEN <<Field(Keys[i], obj[Keys[i]])>>
          ELSE <<Field(Keys[i], obj[Keys[i]]), Comma>> \o rest

ConvertToJson(obj) == <<LBrace>> \o FieldList(obj, 1) \o <<RBrace>>

\* JSON.parse on a token sequence.
ParseError == [kind |-> "error", obj |-> EmptyObj]

JsonParse(text) ==
  LET t == SelectSeq(text, LAMBDA x : x.t # "ws")
      inner == SubSeq(t, 2, Len(t) - 1)
      innerOk == \/ Len(inner) = 0
                 \/ /\ Len(inner) % 2 = 1
                    /\ \A i \in 1..Len(inner) :
                         inner[i].t = (IF i % 2 = 1 THEN "field" ELSE ",")
      val(k) == LET idx == {i \in 1..Len(inner) :
                              inner[i].t = "field" /\ inner[i].k = k}
                IN IF idx = {} THEN Undef ELSE inner[Max(idx)].v
  IN IF t = <<NullTok>> THEN [kind |-> "null", obj |-> EmptyObj]
     ELSE IF t = <<NumTok>> THEN [kind |-> "scalar", obj |-> EmptyObj]
     ELSE IF Len(t) >= 2 /\ t[1] = LBrace /\ t[Len(t)] = RBrace /\ innerOk
          THEN [kind |-> "object", obj |-> [k \in KeySet |-> val(k)]]
     ELSE ParseError

\* String.prototype.includes("##RESULT_WRITTEN##")
IncludesMarker(text) == \E i \in 1..Len(text) : text[i] = Marker

\* ------------------------------------------------------- PowerShellResult
NoDetails == [message |-> Undef, type |-> Undef, scriptStackTrace |-> Undef,
              targetObject |-> Undef, fullyQualifiedErrorId |-> Undef]

Result(success, data, error, hasDetails, details, cancelled) ==
  [success |-> success, data |-> data, error |-> error,
   hasDetails |-> hasDetails, errorDetails |-> details,
   cancelled |-> cancelled]

CancelledResult ==
  Result(FALSE, Undef, "Operation was cancelled", FALSE, NoDetails, TRUE)

Failure(msg) == Result(FALSE, Undef, msg, FALSE, NoDetails, FALSE)

\* Mutant: the payload is read from a key the document does not have.
FromDocument_LowercaseData(parsed) ==
  IF parsed.obj["Success"] = "false"
  THEN Result(FALSE, Undef, parsed.obj["Error"], TRUE,
              [message |-> parsed.obj["Error"],
               type |-> parsed.obj["Type"],
               scriptStackTrace |-> parsed.obj["StackTrace"],
               targetObject |-> parsed.obj["TargetObject"],
               fullyQualifiedErrorId |-> parsed.obj["FullyQualifiedErrorId"]],
              FALSE)
  ELSE Result(TRUE, Undef, Undef, FALSE, NoDetails, FALSE)

\* Mutant: the stack trace of the document is not copied.
FromDocument_NoStackTrace(parsed) ==
  IF parsed.obj["Success"] = "false"
  THEN Result(FALSE, Undef, parsed.obj["Error"], TRUE,
              [message |-> parsed.obj["Error"],
               type |-> parsed.obj["Type"],
               scriptStackTrace |-> Undef,
               targetObject |-> parsed.obj["TargetObject"],
               fullyQualifiedErrorId |-> parsed.obj["FullyQualifiedErrorId"]],
              FALSE)
  ELSE Result(TRUE, parsed.obj["Data"], Undef, FALSE, NoDetails, FALSE)

\* Mutant: success is taken from the test run the payload reports.
FromDocument_SuccessFromData(parsed) ==
  IF parsed.obj["Success"] = "false"
  THEN Result(FALSE, Undef, parsed.obj["Error"], TRUE,
              [message |-> parsed.obj["Error"],
               type |-> parsed.obj["Type"],
               scriptStackTrace |-> parsed.obj["StackTrace"],
               targetObject |-> parsed.obj["TargetObject"],
               fullyQualifiedErrorId |-> parsed.obj["FullyQualifiedErrorId"]],
              FALSE)
  ELSE IF parsed.obj["Data"] \in DOMAIN TestRunOf
  THEN Result(TestRunOf[parsed.obj["Data"]].Success, parsed.obj["Data"], Undef,
              FALSE, NoDetails, FALSE)
  ELSE Result(TRUE, parsed.obj["Data"], Undef, FALSE, NoDetails, FALSE)

\* The result built from a parsed document: lines 476-497 and 528-548.
FromDocument(parsed) ==
  IF parsed.obj["Success"] = "false"
  THEN Result(FALSE, Undef, parsed.obj["Error"], TRUE,
              [message |-> parsed.obj["Error"],
               type |-> parsed.obj["Type"],
               scriptStackTrace |-> parsed.obj["StackTrace"],
               targetObject |-> parsed.obj["TargetObject"],
               fullyQualifiedErrorId |-> parsed.obj["FullyQualifiedErrorId"]],
              FALSE)
  ELSE Result(TRUE, parsed.obj["Data"], Undef, FALSE, NoDetails, FALSE)

\* JSON.parse threw, or reading a property of null threw a TypeError.
Throws(parsed) == parsed.kind \in {"error", "null"}

Line(tag) == [tag |-> tag, text |-> <<>>]
NoFile == [exists |-> FALSE, content |-> <<>>]
NoLog == EmptyBag

\* fs.existsSync + fs.unlinkSync of the temp file (lines 417-423, 434-440).
Cleanup(hasTemp, file) == IF hasTemp /\ file.exists THEN NoFile ELSE file

\* Fallback decoding of stdout, lines 516-566.
ParseStdout(raw, file) ==
  IF raw.data = <<>>
  THEN [result |-> Failure("No data returned from PowerShell"),
        file |-> file, log |-> NoLog]
  ELSE LET parsed == JsonParse(raw.data)
       IN IF Throws(parsed)
          THEN [result |-> Failure("Failed to parse PowerShell output"),
                file |-> file,
                log |-> SetToBag({Line("[ERROR] Failed to parse PowerShell output"),
                                  [tag |-> "[DEBUG] Output", text |-> raw.data]})]
          ELSE [result |-> FromDocument(parsed), file |-> file, log |-> NoLog]

\* parseJsonResult(result, tempFilePath), lines 411-567.  readOk = FALSE
\* stands for fs.readFileSync throwing on an existing file.
parseJsonResult(raw, hasTemp, file, readOk) ==
  IF raw.cancelled
  THEN [result |-> CancelledResult, file |-> Cleanup(hasTemp, file),
        log |-> NoLog]
  ELSE IF ~raw.success
  THEN [result |-> Failure(IF raw.error = Undef
                           THEN "PowerShell execution failed"
                           ELSE raw.error),
        file |-> Cleanup(hasTemp, file), log |-> NoLog]
  ELSE IF hasTemp /\ ~file.exists /\ IncludesMarker(raw.data)
  THEN [result |-> Failure("PowerShell indicated result was written but temp file not found"),
        file |-> file, log |-> NoLog]
  ELSE IF hasTemp /\ file.exists
  THEN IF ~readOk
       THEN [result |-> Failure("Failed to parse result file"), file |-> file,
             log |-> SetToBag({Line("[ERROR] Failed to read/parse temp file")})]
       ELSE LET parsed == JsonParse(file.content)
            IN IF Throws(parsed)
               THEN [result |-> Failure("Failed to parse result file"),
                     file |-> NoFile,
                     log |-> SetToBag({Line("[ERROR] Failed to read/parse temp file")})]
               ELSE [result |-> FromDocument(parsed), file |-> NoFile,
                     log |-> NoLog]
  ELSE ParseStdout(raw, file)

\* ------------------------------------------------------------------ state
VARIABLES
  procs,           \* per spawned process: the closure state of executeRaw
  runningProcess,  \* PowerShellRunner.runningProcess (0 = null)
  killTimers,      \* pending 5 s timers scheduled by cancel()
  files,           \* the temp file of each invocation (BC_RESULT_FILE)
  outputChannel,   \* lines appended to the output channel (as a bag)
  cancelCalls,     \* number of cancel() calls made so far
  configManager,   \* ConfigManager: its cache, the config files, its watcher
  resultsView,     \* TestResultsTreeDataProvider: results, loads, the tree
  child            \* the bootstrap script running in the child (ScriptSpec)

vars == <<procs, runningProcess, killTimers, files, outputChannel, cancelCalls,
          child, configManager, resultsView>>

ProcIds == 1..MaxProcs

SideChannelKinds == {"runTests", "executeTests"}
ProbeKinds == {"getConfig", "getLatestResults"}
JobKinds == SideChannelKinds \cup ProbeKinds

BuildKinds == {"compileApps", "publishApps"}
Operations == JobKinds \cup BuildKinds

\* ------------------------------------------------------- the spawn inputs
\* Paths and other strings are sequences of characters; "\\" is one
\* backslash and "\"" one double quote.
ModulePath == <<"m", "\\", "p">>

\* String.prototype.replace(/\\/g, "\\\\"): every backslash is doubled.
RECURSIVE EscapeBackslashes(_)
EscapeBackslashes(str) ==
  IF str = <<>> THEN <<>>
  ELSE (IF Head(str) = "\\" THEN <<"\\", "\\">> ELSE <<Head(str)>>)
         \o EscapeBackslashes(Tail(str))

\* The caller's parameters of one operation; Undef, and NoPath for a path,
\* = not given.
NoPath == <<>>

NoParams ==
  [configPath |-> NoPath, environmentName |-> Undef, credential |-> Undef,
   codeunitFilter |-> Undef, testMethod |-> Undef, apps |-> Undef,
   resultsFolder |-> NoPath, specificFile |-> NoPath]

\* The name of the entry point each operation hands to buildInvokeScript.
EntryPoint(kind) ==
  CASE kind = "runTests" -> "Invoke-BCTestRunnerFromJson"
    [] kind = "executeTests" -> "Invoke-BCExecuteTestsFromJson"
    [] kind = "compileApps" -> "Invoke-BCCompileFromJson"
    [] OTHER -> "Invoke-BCPublishFromJson"

\* buildInvokeScript(functionName), lines 335-376 and 1199-1228.
buildInvokeScript(functionName) ==
  <<"try { Import-Module \"">> \o EscapeBackslashes(ModulePath)
    \o <<"\"; $result = & { ", functionName,
         " -InputJson $inputJson }; ... } catch { ... }">>

\* The script of getConfig, lines 234-259.
GetConfigScript(configPath) ==
  <<"try { Import-Module \"">> \o EscapeBackslashes(ModulePath)
    \o <<"\"; $config = Get-BCTestRunnerConfig -ConfigPath \"">>
    \o EscapeBackslashes(configPath)
    \o <<"\"; ... } catch { ... }">>

\* The script of getLatestResults, lines 272-302.
GetLatestResultsScript(resultsFolder, specificFile) ==
  <<"try { $resultsPath = \"">> \o EscapeBackslashes(resultsFolder)
    \o <<"\"; ">>
    \o (IF specificFile # NoPath
        THEN <<"$resultFile = \"">> \o EscapeBackslashes(specificFile)
               \o <<"\"">>
        ELSE <<"$resultFile = Get-ChildItem -Path $resultsPath ...">>)
    \o <<"; ... } catch { ... }">>

ScriptOf(kind, params) ==
  CASE kind = "getConfig" -> GetConfigScript(params.configPath)
    [] kind = "getLatestResults" ->
         GetLatestResultsScript(params.resultsFolder, params.specificFile)
    [] OTHER -> buildInvokeScript(EntryPoint(kind))

\* The args array of executeRaw: lines 580-588, and lines 1463-1471 for the
\* operations that only the second runner has.
SpawnArgs(kind, params) ==
  <<"-NoProfile", "-NoLogo", "-NonInteractive", "-ExecutionPolicy", "Bypass",
    "-Command">>
    \o (IF kind \in BuildKinds THEN ScriptOf(kind, params)
        ELSE <<"$WarningPreference='SilentlyContinue'; $VerbosePreference='SilentlyContinue'; ">>
               \o ScriptOf(kind, params) \o <<" 3>$null">>)

\* What each operation writes to stdin: the one document JSON.stringify
\* makes of its stdinData; getConfig and getLatestResults write nothing.
StdinData(kind, params) ==
  IF kind \notin SideChannelKinds \cup BuildKinds THEN <<>> ELSE <<
  CASE kind = "runTests" ->
         [NoParams EXCEPT !.configPath = params.configPath,
                          !.environmentName = params.environmentName,
                          !.credential = params.credential]
    [] kind = "executeTests" ->
         [NoParams EXCEPT !.configPath = params.configPath,
                          !.environmentName = params.environmentName,
                          !.credential = params.credential,
                          !.codeunitFilter = params.codeunitFilter,
                          !.testMethod = params.testMethod]
    [] kind = "compileApps" ->
         [NoParams EXCEPT !.configPath = params.configPath,
                          !.environmentName = params.environmentName,
                          !.apps = params.apps,
                          !.credential = params.credential]
    [] kind = "publishApps" ->
         [NoParams EXCEPT !.configPath = params.configPath,
                          !.environmentName = params.environmentName,
                          !.credential = params.credential]
    [] OTHER -> NoParams >>

\* The temp file path of executeWithProgress, lines 386-391; stamp stands for
\* Date.now() and the random suffix.
TempFilePath(stamp) == <<"bctest-", "pid", "-", stamp, ".json">>

NoEnv == [processEnv |-> FALSE, BC_RESULT_FILE |-> Undef, noColor |-> Undef,
          term |-> Undef, credential |-> Undef]

\* Mutant: the credential is also handed over in the child's environment.
SpawnEnv_WithCredential(kind, params, stamp) ==
  [processEnv |-> TRUE,
   BC_RESULT_FILE |-> IF kind \in SideChannelKinds THEN TempFilePath(stamp)
                      ELSE Undef,
   noColor |-> "1", term |-> "dumb", credential |-> params.credential]

\* The env option of spawn, lines 394-398 and 599-605.
SpawnEnv(kind, params, stamp) ==
  [processEnv |-> TRUE,
   BC_RESULT_FILE |-> IF kind \in SideChannelKinds THEN TempFilePath(stamp)
                      ELSE Undef,
   noColor |-> "1", term |-> "dumb", credential |-> Undef]

\* The two lines executeRaw writes before it spawns, lines 590-595.
StartLines(kind, params) ==
  <<Line("Executing PowerShell"), Line("Working directory")>>

NoProc ==
  [st |-> "none", kind |-> "none", cancelled |-> FALSE, tokenArmed |-> FALSE,
   timerArmed |-> FALSE, sigterm |-> FALSE, sigkill |-> FALSE,
   ignoresTerm |-> FALSE, exitsOnOwn |-> FALSE, stdout |-> <<>>,
   stderr |-> "", resolved |-> FALSE, result |-> Failure(Undef),
   timedOut |-> FALSE, tokenFired |-> FALSE, cancelReq |-> FALSE,
   seen |-> [code |-> "", readOk |-> TRUE, file |-> NoFile],
   params |-> NoParams, stamp |-> "", args |-> <<>>, env |-> NoEnv,
   stdin |-> <<>>, logged |-> <<>>,
   final |-> <<>>, cleaned |-> <<>>, extracted |-> <<>>, stripped |-> <<>>,
   emits |-> <<>>, pending |-> <<>>, chunks |-> <<>>, onProgress |-> <<>>,
   trace |-> <<>>,
   frame |-> [before |-> <<>>, name |-> <<>>, id |-> <<>>, method |-> <<>>,
              line |-> <<>>, after |-> <<>>],
   stackInfo |-> [status |-> "null", codeunit |-> <<>>, codeunitId |-> <<>>,
                  method |-> <<>>, lineNumber |-> <<>>],
   lineNumber |-> <<>>,
   export |-> [schema |-> "", supplied |-> FALSE, compilation |-> <<>>,
               tested |-> FALSE, failures |-> <<>>,
               suggestedActions |-> <<>>]]

NoChild == [pc |-> "none", raised |-> Undef, data |-> Undef, writes |-> 0]

\* ConfigManager after its constructor (part_003, lines 20-27): nothing
\* cached.  A config is named by the path it was loaded from; exists is the
\* set of config files on disk, events the watcher events not yet delivered,
\* finds the findConfigFile calls waiting for the glob search, returned the
\* last answer of loadConfig.
NoManager ==
  [cachedConfig |-> Undef, cachedConfigPath |-> Undef, exists |-> {},
   events |-> 0, finds |-> 0,
   returned |-> [asked |-> Undef, config |-> Undef]]

\* TestResultsTreeDataProvider (TestResultsView.ts, lines 111-127) with
\* nothing loaded.  Results are named by the number of the test run that
\* wrote them (0: none); latest is the run whose results are on disk,
\* displayed what the tree shows, fired the change events not yet handled.
\* Calls of loadResults are numbered in the order they are issued: issued is
\* the last number given, refreshed the number of the last call made by
\* refresh(), stored the number of the call that assigned this.results last,
\* loaded what the call made by the last refresh() has read.
LoadIds == 1..MaxLoads
NoLoad == [pc |-> "none", data |-> 0, seq |-> 0]
NoView ==
  [results |-> 0, displayed |-> 0, fired |-> 0, latest |-> 0,
   issued |-> 0, refreshed |-> 0, stored |-> 0,
   loaded |-> [seq |-> 0, data |-> 0],
   loads |-> [l \in LoadIds |-> NoLoad]]

Running == {p \in ProcIds : procs[p].st = "running"}

Init ==
  /\ procs = [p \in ProcIds |-> NoProc]
  /\ runningProcess = 0
  /\ killTimers = 0
  /\ files = [p \in ProcIds |-> NoFile]
  /\ outputChannel = EmptyBag
  /\ cancelCalls = 0
  /\ child = NoChild
  /\ configManager = NoManager
  /\ resultsView = NoView

Log(lines) == outputChannel (+) lines

\* One operation of the runner up to the registration of the handlers of
\* executeRaw, lines 572-649.
StartCall(kind, params, stamp, useToken, ignoresTerm, exitsOnOwn, spawnOk) ==
  /\ \E p \in ProcIds : procs[p].st = "none"
  /\ LET p == CHOOSE q \in ProcIds :
                /\ procs[q].st = "none"
                /\ \A r \in ProcIds : procs[r].st = "none" => q <= r
     IN /\ procs' = [procs EXCEPT ![p] =
                       [NoProc EXCEPT !.st = IF spawnOk THEN "running" ELSE "failed",
                                      !.kind = kind,
                                      !.tokenArmed = useToken,
                                      !.timerArmed = TRUE,
                                      !.ignoresTerm = ignoresTerm,
                                      !.exitsOnOwn = exitsOnOwn,
                                      !.params = params,
                                      !.stamp = stamp,
                                      !.args = SpawnArgs(kind, params),
                                      !.env = SpawnEnv(kind, params, stamp),
                                      !.stdin = StdinData(kind, params),
                                      !.logged = StartLines(kind, params)]]
        /\ runningProcess' = p
  /\ outputChannel' = Log(SetToBag({StartLines(kind, params)[1]})
                          (+) SetToBag({StartLines(kind, params)[2]}))
  /\ UNCHANGED <<configManager, resultsView, killTimers, files, cancelCalls, child>>

\* The parameters of the jobs whose life is followed.
DefaultParams(kind) ==
  CASE kind \in SideChannelKinds ->
         [NoParams EXCEPT !.configPath = <<"c">>, !.environmentName = "env1"]
    [] kind = "getConfig" -> [NoParams EXCEPT !.configPath = <<"c">>]
    [] OTHER -> [NoParams EXCEPT !.resultsFolder = <<"r">>]

StartJob(kind, useToken, ignoresTerm, exitsOnOwn, spawnOk) ==
  StartCall(kind, DefaultParams(kind), "t1", useToken, ignoresTerm, exitsOnOwn,
            spawnOk)

\* proc.kill(signal) on process p: a no-op once the process is gone.
Kill(ps, p, sig) ==
  IF ps[p].st # "running" THEN ps
  ELSE IF sig = "SIGTERM" THEN [ps EXCEPT ![p].sigterm = TRUE]
  ELSE [ps EXCEPT ![p].sigkill = TRUE]

\* cancellationToken.onCancellationRequested listener, lines 616-621.
TokenCancel(p) ==
  /\ procs[p].st = "running"
  /\ procs[p].tokenArmed
  /\ procs' = Kill([procs EXCEPT ![p].cancelled = TRUE,
                                 ![p].tokenArmed = FALSE,
                                 ![p].tokenFired = TRUE], p, "SIGTERM")
  /\ UNCHANGED <<configManager, resultsView, runningProcess, killTimers, files, outputChannel, cancelCalls, child>>

\* The timeout callback, lines 624-628.
Timeout(p) ==
  /\ procs[p].st = "running"
  /\ procs[p].timerArmed
  /\ procs' = Kill([procs EXCEPT ![p].cancelled = TRUE,
                                 ![p].timerArmed = FALSE,
                                 ![p].timedOut = TRUE], p, "SIGTERM")
  /\ outputChannel' = Log(SetToBag({Line("Operation timed out")}))
  /\ UNCHANGED <<configManager, resultsView, runningProcess, killTimers, files, cancelCalls, child>>

\* Mutant: cancel() without the test of runningProcess.
Cancel_Unguarded ==
  /\ cancelCalls < MaxCancels
  /\ cancelCalls' = cancelCalls + 1
  /\ outputChannel' = Log(SetToBag({Line("Cancelling running operation...")}))
  /\ procs' = IF runningProcess # 0
              THEN Kill(procs, runningProcess, "SIGTERM") ELSE procs
  /\ killTimers' = killTimers + 1
  /\ UNCHANGED <<configManager, resultsView, runningProcess, files, child>>

\* cancel(), lines 311-323.
Cancel ==
  /\ cancelCalls < MaxCancels
  /\ cancelCalls' = cancelCalls + 1
  /\ IF runningProcess # 0
     THEN /\ outputChannel' = Log(SetToBag({Line("Cancelling running operation...")}))
          /\ procs' = Kill([procs EXCEPT ![runningProcess].cancelReq =
                              (procs[runningProcess].st = "running")],
                           runningProcess, "SIGTERM")
          /\ killTimers' = killTimers + 1
     ELSE UNCHANGED <<configManager, resultsView, outputChannel, procs, killTimers>>
  /\ UNCHANGED <<configManager, resultsView, runningProcess, files, child>>

\* The 5 s callback scheduled by cancel(), lines 316-321.
KillTimerFire ==
  /\ killTimers > 0
  /\ killTimers' = killTimers - 1
  /\ IF runningProcess # 0
     THEN /\ procs' = Kill(procs, runningProcess, "SIGKILL")
          /\ runningProcess' = 0
     ELSE UNCHANGED <<configManager, resultsView, procs, runningProcess>>
  /\ UNCHANGED <<configManager, resultsView, files, outputChannel, cancelCalls, child>>

Chunks == {<<Noise>>, <<Marker>>}

\* proc.stdout.on("data"), lines 638-643: the closure's stdout and the echo
\* to the output channel.
OnStdout(ps, p, chunk) == [ps EXCEPT ![p].stdout = @ \o chunk]
Echo(chunk) == SetToBag({[tag |-> "stdout", text |-> chunk]})

\* A chunk printed by the child arrives on stdout.
StdoutData(p, chunk) ==
  /\ procs[p].st = "running"
  /\ Len(procs[p].stdout) + Len(chunk) <= MaxStdout
  /\ procs' = OnStdout(procs, p, chunk)
  /\ outputChannel' = Log(Echo(chunk))
  /\ UNCHANGED <<configManager, resultsView, runningProcess, killTimers, files, cancelCalls, child>>

\* proc.stderr.on("data"), lines 645-649.
StderrData(p) ==
  /\ procs[p].st = "running"
  /\ procs[p].stderr = ""
  /\ procs' = [procs EXCEPT ![p].stderr = "stderr text"]
  /\ outputChannel' = Log(SetToBag({Line("[STDERR] stderr text")}))
  /\ UNCHANGED <<configManager, resultsView, runningProcess, killTimers, files, cancelCalls, child>>

ExitMessage(stderr, code) ==
  IF stderr # "" THEN stderr
  ELSE IF code = "1" THEN "PowerShell exited with code 1"
  ELSE "PowerShell exited with code null"

\* Mutant: the close handler does not look at the cancelled flag.
RawResult_IgnoresCancelled(pr, code) ==
  IF code # "0" /\ pr.stdout = <<>>
  THEN [success |-> FALSE, data |-> <<>>,
        error |-> ExitMessage(pr.stderr, code), cancelled |-> FALSE]
  ELSE [success |-> TRUE, data |-> pr.stdout, error |-> Undef,
        cancelled |-> FALSE]

\* The value the close handler resolves the promise with, lines 658-684.
RawResult(pr, code) ==
  IF pr.cancelled
  THEN [success |-> FALSE, data |-> <<>>, error |-> "Operation was cancelled",
        cancelled |-> TRUE]
  ELSE IF code # "0" /\ pr.stdout = <<>>
  THEN [success |-> FALSE, data |-> <<>>,
        error |-> ExitMessage(pr.stderr, code), cancelled |-> FALSE]
  ELSE [success |-> TRUE, data |-> pr.stdout, error |-> Undef,
        cancelled |-> FALSE]

\* The exit codes the child can close with: its own exit, or death by signal.
CanClose(pr, code) ==
  \/ pr.exitsOnOwn /\ code \in {"0", "1"}
  \/ pr.sigterm /\ ~pr.ignoresTerm /\ code = "null"
  \/ pr.sigkill /\ code = "null"

\* proc.on("close"), lines 651-685, followed by the continuation of the
\* caller (parseJsonResult, lines 405, 262, 305).
Close(p, code, readOk) ==
  /\ procs[p].st = "running"
  /\ CanClose(procs[p], code)
  /\ LET raw == RawResult(procs[p], code)
         dec == parseJsonResult(raw, procs[p].kind \in SideChannelKinds,
                                files[p], readOk)
     IN /\ procs' = [procs EXCEPT ![p].st = "closed",
                                  ![p].timerArmed = FALSE,
                                  ![p].tokenArmed = FALSE,
                                  ![p].resolved = TRUE,
                                  ![p].result = dec.result,
                                  ![p].seen = [code |-> code,
                                               readOk |-> readOk,
                                               file |-> files[p]]]
        /\ files' = [files EXCEPT ![p] = dec.file]
        /\ outputChannel' = Log(dec.log)
  /\ runningProcess' = 0
  /\ UNCHANGED <<configManager, resultsView, killTimers, cancelCalls, child>>

\* proc.on("error") after a failed spawn, lines 687-698, and the caller's
\* continuation.
ErrorEvent(p) ==
  /\ procs[p].st = "failed"
  /\ LET raw == [success |-> FALSE, data |-> <<>>,
                 error |-> "Failed to start PowerShell", cancelled |-> FALSE]
         dec == parseJsonResult(raw, procs[p].kind \in SideChannelKinds,
                                files[p], TRUE)
     IN /\ procs' = [procs EXCEPT ![p].st = "errored",
                                  ![p].timerArmed = FALSE,
                                  ![p].tokenArmed = FALSE,
                                  ![p].resolved = TRUE,
                                  ![p].result = dec.result]
        /\ files' = [files EXCEPT ![p] = dec.file]
        /\ outputChannel' = Log(dec.log)
  /\ runningProcess' = 0
  /\ UNCHANGED <<configManager, resultsView, killTimers, cancelCalls, child>>

\* The close event that follows the error event of a failed spawn: the
\* handler of lines 651-654 runs again, the promise is already resolved.
CloseAfterError(p) ==
  /\ procs[p].st = "errored"
  /\ procs' = [procs EXCEPT ![p].st = "closed"]
  /\ runningProcess' = 0
  /\ UNCHANGED <<configManager, resultsView, killTimers, files, outputChannel, cancelCalls, child>>

SuccessDoc(d) == [EmptyObj EXCEPT !["Success"] = "true", !["Data"] = d]
ErrorDoc(e) == [EmptyObj EXCEPT !["Success"] = "false", !["Error"] = e]

LifeDocs == {ConvertToJson(SuccessDoc("d1")), ConvertToJson(ErrorDoc("e1")),
             <<LBrace, Field("Success", "true")>>}

\* The child writes (or overwrites) the file named by BC_RESULT_FILE.
ChildWriteFile(p, content) ==
  /\ procs[p].st = "running"
  /\ procs[p].kind \in SideChannelKinds
  /\ files' = [files EXCEPT ![p] = [exists |-> TRUE, content |-> content]]
  /\ UNCHANGED <<configManager, resultsView, procs, runningProcess, killTimers, outputChannel, cancelCalls, child>>

Codes == {"0", "1", "null"}

\* The handlers of one process, whichever jobs are in flight.
ProcessEvents ==
  \/ \E p \in ProcIds : TokenCancel(p)
  \/ \E p \in ProcIds : Timeout(p)
  \/ \E p \in ProcIds, code \in Codes, readOk \in BOOLEAN :
       Close(p, code, readOk)
  \/ \E p \in ProcIds : ErrorEvent(p)
  \/ \E p \in ProcIds : CloseAfterError(p)

\* One job of any kind, followed in full detail: its output, its result
\* file, its cancellation and its decoding.
RunJob(kind, useToken, ign, own, ok) ==
  /\ \A p \in ProcIds : procs[p].st = "none"
  /\ useToken => kind \in SideChannelKinds
  /\ StartJob(kind, useToken, ign, own, ok)

Next ==
  \/ \E kind \in JobKinds, useToken, ign, own, ok \in BOOLEAN :
       RunJob(kind, useToken, ign, own, ok)
  \/ ProcessEvents
  \/ Cancel
  \/ KillTimerFire
  \/ \E p \in ProcIds, chunk \in Chunks : StdoutData(p, chunk)
  \/ \E p \in ProcIds : StderrData(p)
  \/ \E p \in ProcIds, content \in LifeDocs : ChildWriteFile(p, content)

Spec == Init /\ [][Next]_vars

\* Overlapping jobs on one runner (a test run and the probes of the results
\* view); the children are silent, so that the state is the runner's own.
OverlapJob(kind, useToken, ign, ok) ==
  /\ useToken => kind \in SideChannelKinds
  /\ StartJob(kind, useToken, ign, TRUE, ok)

ConcNext ==
  \/ \E kind \in {"runTests", "getLatestResults"}, useToken, ign, ok \in BOOLEAN :
       OverlapJob(kind, useToken, ign, ok)
  \/ ProcessEvents
  \/ Cancel
  \/ KillTimerFire

ConcSpec == Init /\ [][ConcNext]_vars

\* ------------------------------------------------------------- the calls
\* The parameter values a caller can pass to each operation.
ConfigPaths == {<<"c">>, <<"c", "\\", "d">>}
InjectingPaths == {<<"c", "\"", ";", "x">>}
Credentials == {Undef, "user1:pw1", "user2:pw2"}
Stamps == {"t1", "t2"}

ParamsOf(kind) ==
  CASE kind = "runTests" ->
         {[NoParams EXCEPT !.configPath = c, !.environmentName = "env1",
                           !.credential = cr] :
            c \in ConfigPaths, cr \in Credentials}
    [] kind = "executeTests" ->
         {[NoParams EXCEPT !.configPath = c, !.environmentName = "env1",
                           !.credential = cr, !.codeunitFilter = f] :
            c \in ConfigPaths, cr \in Credentials, f \in {Undef, "50100"}}
    [] kind \in BuildKinds ->
         {[NoParams EXCEPT !.configPath = c, !.credential = cr] :
            c \in ConfigPaths, cr \in {Undef, "user1:pw1"}}
    [] kind = "getConfig" ->
         {[NoParams EXCEPT !.configPath = c] :
            c \in ConfigPaths \cup InjectingPaths}
    [] OTHER ->
         {[NoParams EXCEPT !.resultsFolder = r, !.specificFile = f] :
            r \in ConfigPaths, f \in {NoPath, <<"f">>}}

\* A caller invokes an operation of the runner.
CallOperation(kind, params, stamp) ==
  /\ params \in ParamsOf(kind)
  /\ StartCall(kind, params, stamp, FALSE, FALSE, TRUE, TRUE)

CallNext ==
  \E kind \in Operations, stamp \in Stamps :
    \E params \in ParamsOf(kind) : CallOperation(kind, params, stamp)

CallSpec == Init /\ [][CallNext]_vars

\* ------------------------------------------------------------ the decoder
\* The documents a child can leave behind, and the ways a file is not one.
Opt(S) == {Undef} \cup S

\* The error fields a document carries: none, those of Write-JsonResult's
\* catch block (part_001 lines 62-67), or those of the bootstrap script.
DetailProfiles ==
  {<<Undef, Undef, Undef, Undef>>, <<"t1", "s1", Undef, Undef>>,
   <<"t1", "s1", "null", "f1">>}

Docs ==
  {[k \in KeySet |->
      CASE k = "Success" -> s [] k = "Data" -> d [] k = "Error" -> e
        [] k = "Type" -> dp[1] [] k = "StackTrace" -> dp[2]
        [] k = "TargetObject" -> dp[3] [] OTHER -> dp[4]] :
     s \in Opt({"true", "false"}), d \in Opt({"null"} \cup DataVals),
     e \in Opt(ErrVals), dp \in DetailProfiles}

\* The text of each document.
DocText == [d \in Docs |-> ConvertToJson(d)]

Truncated(text) == SubSeq(text, 1, Len(text) - 1)

DecodeContents ==
  {DocText[d] : d \in Docs}
    \cup {Truncated(DocText[d]) : d \in Docs}
    \cup {<<Noise>> \o DocText[d] : d \in Docs}
    \cup {<<>>, <<NullTok>>, <<NumTok>>}

StdoutDocs == {SuccessDoc("d1"), ErrorDoc("e1"), EmptyObj,
               [EmptyObj EXCEPT !["Data"] = "d1"]}

DecodeStdouts ==
  {<<>>, <<Noise>>, <<Marker>>, <<NullTok>>, <<NumTok>>,
   <<Noise>> \o DocText[SuccessDoc("d1")],
   DocText[SuccessDoc("d1")] \o <<Marker>>}
    \cup {DocText[d] : d \in StdoutDocs}
    \cup {<<Ws>> \o DocText[d] \o <<Ws>> : d \in StdoutDocs}

\* A job whose child is about to close, with every stdout, stderr, result
\* file and cancellation state it can have reached by then.
DecodeInit ==
  \E kind \in JobKinds, out \in DecodeStdouts, err \in {"", "stderr text"},
     cancelled \in BOOLEAN, signalled \in BOOLEAN, hasFile \in BOOLEAN,
     content \in DecodeContents :
    /\ hasFile => kind \in SideChannelKinds
    /\ ~hasFile => content = <<>>
    /\ cancelled => signalled
    /\ err # "" => out = <<>>
    /\ procs = [p \in ProcIds |->
                  IF p = 1
                  THEN [NoProc EXCEPT !.st = "running", !.kind = kind,
                                      !.timerArmed = TRUE,
                                      !.exitsOnOwn = TRUE,
                                      !.cancelled = cancelled,
                                      !.sigterm = signalled,
                                      !.stdout = out, !.stderr = err]
                  ELSE NoProc]
    /\ files = [p \in ProcIds |->
                  IF p = 1 /\ hasFile
                  THEN [exists |-> TRUE, content |-> content]
                  ELSE NoFile]
    /\ runningProcess = 1
    /\ killTimers = 0
    /\ outputChannel = SetToBag({Line("Executing PowerShell"),
                                 Line("Working directory")})
    /\ cancelCalls = 0
    /\ child = NoChild
    /\ configManager = NoManager
    /\ resultsView = NoView

DecodeNext ==
  \E p \in ProcIds, code \in Codes, readOk \in BOOLEAN : Close(p, code, readOk)

DecodeSpec == DecodeInit /\ [][DecodeNext]_vars

\* ------------------------------------------------- the bootstrap script
\* The script of buildInvokeScript (lines 335-376) running in the child of a
\* side-channel job, with the entry point it calls (part_001,
\* Invoke-BCTestRunnerFromJson lines 621-664, Invoke-BCExecuteTestsFromJson
\* lines 669-746) and Write-JsonResult (part_001 lines 30-73).
\* child.pc: "import" -> "call" -> ("writeResult" | "fnCatch") -> "returned"
\*           -> "done", or "import" -> "catch" -> "done".

\* Out-File -FilePath $env:BC_RESULT_FILE followed by Write-Host of the
\* marker, which the parent receives on stdout.
WriteResultFile(p, doc) ==
  /\ files' = [files EXCEPT ![p] = [exists |-> TRUE,
                                    content |-> ConvertToJson(doc)]]
  /\ procs' = OnStdout(procs, p, <<Marker>>)
  /\ outputChannel' = Log(Echo(<<Marker>>))

\* The error document built in a catch block from the error record $_.
CaughtDoc(msg, full) ==
  [EmptyObj EXCEPT !["Success"] = "false", !["Error"] = msg,
                   !["Type"] = "t1", !["StackTrace"] = "s1",
                   !["TargetObject"] = IF full THEN "null" ELSE Undef,
                   !["FullyQualifiedErrorId"] = IF full THEN "f1" ELSE Undef]

ScriptProc == 1

ScriptInit ==
  \E kind \in SideChannelKinds, useToken \in BOOLEAN :
    /\ procs = [p \in ProcIds |->
                  IF p = ScriptProc
                  THEN [NoProc EXCEPT !.st = "running", !.kind = kind,
                                      !.timerArmed = TRUE,
                                      !.tokenArmed = useToken,
                                      !.exitsOnOwn = TRUE]
                  ELSE NoProc]
    /\ files = [p \in ProcIds |-> NoFile]
    /\ runningProcess = ScriptProc
    /\ killTimers = 0
    /\ outputChannel = SetToBag({Line("Executing PowerShell"),
                                 Line("Working directory")})
    /\ cancelCalls = 0
    /\ child = [NoChild EXCEPT !.pc = "import"]
    /\ configManager = NoManager
    /\ resultsView = NoView

\* Import-Module ... -ErrorAction Stop, line 342.
ScriptImport(ok, msg) ==
  /\ child.pc = "import"
  /\ child' = [child EXCEPT !.pc = IF ok THEN "call" ELSE "catch",
                            !.data = IF ok THEN Undef ELSE msg]
  /\ UNCHANGED <<configManager, resultsView, procs, runningProcess, killTimers, files, outputChannel,
                 cancelCalls>>

\* The body of the entry point's try block up to its result: it returns a
\* result object or an exception is raised in it (part_001 lines 635-647,
\* 680-725).
EntryPointBody(raises, val) ==
  /\ child.pc = "call"
  /\ child' = [child EXCEPT !.pc = IF raises THEN "fnCatch" ELSE "writeResult",
                            !.raised = IF raises THEN val ELSE Undef,
                            !.data = val]
  /\ procs' = OnStdout(procs, ScriptProc, <<Noise>>)
  /\ outputChannel' = Log(Echo(<<Noise>>))
  /\ UNCHANGED <<configManager, resultsView, runningProcess, killTimers, files, cancelCalls>>

\* Write-JsonResult -Result $result with BC_RESULT_FILE set (part_001 lines
\* 45-68); it returns nothing.  outOk = FALSE: the first Out-File throws.
WriteJsonResult(outOk) ==
  /\ child.pc = "writeResult"
  /\ WriteResultFile(ScriptProc,
                     IF outOk THEN SuccessDoc(child.data)
                     ELSE CaughtDoc("out-file failed", FALSE))
  /\ child' = [child EXCEPT !.pc = "returned", !.data = "null",
                            !.writes = @ + 1]
  /\ UNCHANGED <<configManager, resultsView, runningProcess, killTimers, cancelCalls>>

\* The catch block of the entry point with BC_RESULT_FILE set (part_001 lines
\* 649-660, 729-740); the function then returns nothing.
EntryPointCatch ==
  /\ child.pc = "fnCatch"
  /\ WriteResultFile(ScriptProc, CaughtDoc(child.raised, TRUE))
  /\ child' = [child EXCEPT !.pc = "returned", !.data = "null",
                            !.writes = @ + 1]
  /\ UNCHANGED <<configManager, resultsView, runningProcess, killTimers, cancelCalls>>

\* Back in the script: $output = @{Success = $true; Data = $result} is
\* written with Out-File -Force, lines 348-355.
ScriptWriteOutput ==
  /\ child.pc = "returned"
  /\ WriteResultFile(ScriptProc, SuccessDoc(child.data))
  /\ child' = [child EXCEPT !.pc = "done", !.writes = @ + 1]
  /\ UNCHANGED <<configManager, resultsView, runningProcess, killTimers, cancelCalls>>

\* The catch block of the script, lines 359-370.
ScriptCatch ==
  /\ child.pc = "catch"
  /\ WriteResultFile(ScriptProc, CaughtDoc(child.data, TRUE))
  /\ child' = [child EXCEPT !.pc = "done", !.writes = @ + 1]
  /\ UNCHANGED <<configManager, resultsView, runningProcess, killTimers, cancelCalls>>

\* The script has ended: the child exits and the parent decodes.
ScriptExit(readOk) ==
  /\ child.pc = "done"
  /\ Close(ScriptProc, "0", readOk)

ScriptNext ==
  \/ \E ok \in BOOLEAN, msg \in ErrVals : ScriptImport(ok, msg)
  \/ \E val \in ErrVals : EntryPointBody(TRUE, val)
  \/ \E val \in DataVals : EntryPointBody(FALSE, val)
  \/ \E outOk \in BOOLEAN : WriteJsonResult(outOk)
  \/ EntryPointCatch
  \/ ScriptWriteOutput
  \/ ScriptCatch
  \/ \E readOk \in BOOLEAN : ScriptExit(readOk)
  \/ \E p \in ProcIds : StderrData(p)

ScriptSpec == ScriptInit /\ [][ScriptNext]_vars

\* ------------------------------------------------------------- the demuxer
\* The second runner of PowerShellRunner.ts (lines 801-1657) has no result
\* file: its close handler and extractJson cut the result object out of
\* stdout.  Here text is a sequence of characters: one-character strings,
\* with names for the control characters and the blank.
ESC == "ESC"
BEL == "BEL"
NUL == "NUL"
LF == "LF"
CR == "CR"
TAB == "TAB"
SP == "SP"

Letters ==
  {"a", "b", "c", "d", "e", "f", "g", "h", "i", "j", "k", "l", "m", "n", "o",
   "p", "q", "r", "s", "t", "u", "v", "w", "x", "y", "z",
   "A", "B", "C", "D", "E", "F", "G", "H", "I", "J", "K", "L", "M", "N", "O",
   "P", "Q", "R", "S", "T", "U", "V", "W", "X", "Y", "Z"}
ParamChars == {"0", "1", "2", "3", "4", "5", "6", "7", "8", "9", ";"}
LineTerminators == {LF, CR}
WhiteSpace == {SP, TAB, LF, CR}
\* [\x00-\x1F] without tab, line feed and carriage return.
ControlChars == {ESC, BEL, NUL}

KeySuccess == <<"\"", "S", "u", "c", "c", "e", "s", "s", "\"">>
KeyData == <<"\"", "D", "a", "t", "a", "\"">>
WarningPrefix == <<"W", "A", "R", "N", "I", "N", "G", ":">>
VerbosePrefix == <<"V", "E", "R", "B", "O", "S", "E", ":">>
DebugPrefix == <<"D", "E", "B", "U", "G", ":">>
ProgressPrefix == <<"#", "#", "P", "R", "O", "G", "R", "E", "S", "S", "#", "#">>

StartsWith(s, i, pre) ==
  /\ i >= 1 /\ i + Len(pre) - 1 <= Len(s)
  /\ SubSeq(s, i, i + Len(pre) - 1) = pre

\* The one element of a singleton: binding a value as the element of a set
\* evaluates it once, before it is used.
The(S) == CHOOSE x \in S : TRUE

\* The first index from i on that is in set stops (Len(s) + 1 if there is
\* none).
FirstOf(stops, s, i) ==
  IF stops = {} THEN Len(s) + 1
  ELSE CHOOSE j \in stops : \A k \in stops : j <= k

\* The first index from i on whose character is not in set S (Len(s) + 1 if
\* there is none): the end of a greedy S*.
SkipChars(s, i, S) == FirstOf({j \in i..Len(s) : s[j] \notin S}, s, i)

\* The first index from i on whose character is in set S (Len(s) + 1 if
\* there is none).
FindChar(s, i, S) == FirstOf({j \in i..Len(s) : s[j] \in S}, s, i)

\* The first index j >= i with "##" at j, on the line of i (0 if none): the
\* end of the lazy .*? before ## .
FindHashes(s, i) ==
  LET eol == FindChar(s, i, LineTerminators)
      j == FirstOf({k \in i..(eol - 2) : s[k] = "#" /\ s[k + 1] = "#"}, s, i)
  IN IF j <= Len(s) THEN j ELSE 0

\* The index of the last character of the match of a pattern that starts at
\* index i of s, 0 if the pattern does not match there.
\*   csi       ESC \[ [0-9;]* [A-Za-z]
\*   osc       ESC \] [^BEL]* BEL
\*   escAny    ESC .
\*   esc       ESC
\*   control   [\x00-\x08\x0B\x0C\x0E-\x1F], [\x00-\x1F] but \t \n \r
\*   color     \[ [0-9;]* m
\*   warning   ^WARNING:.*$   (flags gm), likewise verbose, debug
\*   progress  ##PROGRESS##.*?##
LinePrefix(pattern) ==
  CASE pattern = "warning" -> WarningPrefix
    [] pattern = "verbose" -> VerbosePrefix
    [] OTHER -> DebugPrefix

MatchEnd(pattern, s, i) ==
  CASE pattern = "csi" ->
         IF s[i] = ESC /\ i + 1 <= Len(s) /\ s[i + 1] = "["
         THEN LET j == SkipChars(s, i + 2, ParamChars)
              IN IF j <= Len(s) /\ s[j] \in Letters THEN j ELSE 0
         ELSE 0
    [] pattern = "osc" ->
         IF s[i] = ESC /\ i + 1 <= Len(s) /\ s[i + 1] = "]"
         THEN LET j == FindChar(s, i + 2, {BEL})
              IN IF j <= Len(s) THEN j ELSE 0
         ELSE 0
    [] pattern = "escAny" ->
         IF s[i] = ESC /\ i + 1 <= Len(s) /\ s[i + 1] \notin LineTerminators
         THEN i + 1 ELSE 0
    [] pattern = "esc" -> IF s[i] = ESC THEN i ELSE 0
    [] pattern = "control" -> IF s[i] \in ControlChars THEN i ELSE 0
    [] pattern = "color" ->
         IF s[i] = "["
         THEN LET j == SkipChars(s, i + 1, ParamChars)
              IN IF j <= Len(s) /\ s[j] = "m" THEN j ELSE 0
         ELSE 0
    [] pattern = "progress" ->
         IF StartsWith(s, i, ProgressPrefix)
         THEN LET j == FindHashes(s, i + Len(ProgressPrefix))
              IN IF j > 0 THEN j + 1 ELSE 0
         ELSE 0
    [] OTHER ->
         IF /\ i = 1 \/ s[i - 1] \in LineTerminators
            /\ StartsWith(s, i, LinePrefix(pattern))
         THEN FindChar(s, i, LineTerminators) - 1
         ELSE 0

\* String.prototype.replace(pattern with flag g, ""): the matches are found
\* from left to right in the original text and do not overlap.
RECURSIVE RemoveFrom(_, _, _)
RemoveFrom(pattern, s, i) ==
  The({The({IF start > Len(text) THEN SubSeq(text, i, Len(text))
            ELSE SubSeq(text, i, start - 1) \o RemoveFrom(pattern, text, next)
              : next \in {IF start > Len(text) THEN start
                          ELSE MatchEnd(pattern, text, start) + 1}})
         : start \in {FirstOf({j \in i..Len(s) : MatchEnd(pattern, s, j) > 0},
                              s, i)},
           text \in {s}})

RemoveAll(pattern, s) == The({RemoveFrom(pattern, text, 1) : text \in {s}})

\* String.prototype.trim()
TrimEnd(s) ==
  LET kept == {j \in 1..Len(s) : s[j] \notin WhiteSpace}
  IN IF kept = {} THEN <<>> ELSE SubSeq(s, 1, Max(kept))

Trim(s) ==
  The({TrimEnd(SubSeq(text, SkipChars(text, 1, WhiteSpace), Len(text)))
         : text \in {s}})

\* Mutant: the control characters are left in the text.
stripAnsiCodes_KeepsControl(input) ==
  RemoveAll("esc", RemoveAll("escAny", RemoveAll("osc", RemoveAll("csi", input))))

\* stripAnsiCodes(input), lines 1244-1285.
stripAnsiCodes(input) ==
  RemoveAll("control",
    RemoveAll("esc",
      RemoveAll("escAny", RemoveAll("osc", RemoveAll("csi", input)))))

\* A match of one of the patterns /\{\s*"Success"\s*:/ and /\{\s*"Data"\s*:/
\* starts at index i (the two patterns with \r?\n match a part of these).
IsJsonStart(s, i) ==
  /\ s[i] = "{"
  /\ LET j == SkipChars(s, i + 1, WhiteSpace)
     IN \E key \in {KeySuccess, KeyData} :
          /\ StartsWith(s, j, key)
          /\ LET k == SkipChars(s, j + Len(key), WhiteSpace)
             IN k <= Len(s) /\ s[k] = ":"

\* lastJsonStart, as an index from 1 (0: no match).
LastJsonStart(s) ==
  LET starts == {i \in 1..Len(s) : IsJsonStart(s, i)}
  IN IF starts = {} THEN 0 ELSE Max(starts)

\* The loop of lines 1330-1359: the index of the brace that closes the
\* object (0: none), with quoted text and escapes skipped.
\* The characters that change the state of the loop; it passes over the
\* others (outside an escape) without an effect.
StateChars == {"{", "}", "\"", "\\"}

RECURSIVE JsonEnd(_, _, _, _, _)
JsonEnd(s, i, braceCount, inString, escape) ==
  IF i > Len(s) THEN 0
  ELSE LET char == s[i]
           same == [braceCount |-> braceCount, inString |-> inString,
                    escape |-> FALSE, break |-> FALSE]
           body ==
             IF escape THEN same
             ELSE IF char = "\\" /\ inString THEN [same EXCEPT !.escape = TRUE]
             ELSE IF char = "\"" THEN [same EXCEPT !.inString = ~inString]
             ELSE IF ~inString /\ char = "{"
             THEN [same EXCEPT !.braceCount = braceCount + 1]
             ELSE IF ~inString /\ char = "}"
             THEN [same EXCEPT !.braceCount = braceCount - 1,
                               !.break = (braceCount - 1 = 0)]
             ELSE same
       IN The({IF after.break THEN i
               ELSE JsonEnd(text, next, after.braceCount, after.inString,
                            after.escape)
                 : after \in {body}, text \in {s},
                   next \in {IF body.escape THEN i + 1
                             ELSE FindChar(s, i + 1, StateChars)}})

\* The loop of lines 1618-1628 in the close handler: every brace counts.
RECURSIVE BraceEnd(_, _, _)
BraceEnd(s, i, braceCount) ==
  IF i > Len(s) THEN 0
  ELSE LET body ==
             IF s[i] = "{"
             THEN [braceCount |-> braceCount + 1, break |-> FALSE]
             ELSE IF s[i] = "}"
             THEN [braceCount |-> braceCount - 1, break |-> braceCount - 1 = 0]
             ELSE [braceCount |-> braceCount, break |-> FALSE]
       IN The({IF after.break THEN i
               ELSE BraceEnd(text, next, after.braceCount)
                 : after \in {body}, text \in {s},
                   next \in {FindChar(s, i + 1, {"{", "}"})}})

\* extractJson(input), lines 1290-1368.
extractJson(input) ==
  The({The({LET jsonCandidate == SubSeq(cleaned, lastJsonStart, Len(cleaned))
                jsonEnd == JsonEnd(jsonCandidate, 1, 0, FALSE, FALSE)
            IN IF lastJsonStart > 0 /\ jsonEnd > 0
               THEN SubSeq(jsonCandidate, 1, jsonEnd)
               ELSE Trim(cleaned)
              : lastJsonStart \in {LastJsonStart(cleaned)}})
         : cleaned \in
             {RemoveAll("progress",
                RemoveAll("debug",
                  RemoveAll("verbose",
                    RemoveAll("warning",
                      RemoveAll("color", stripAnsiCodes(input))))))}})

\* The data the close handler of the second runner resolves with, lines
\* 1583-1633.
CleanedOutput(stdout) ==
  The({The({LET jsonCandidate ==
                  SubSeq(cleanedOutput, lastJsonStart, Len(cleanedOutput))
                jsonEnd == BraceEnd(jsonCandidate, 1, 0)
            IN IF lastJsonStart > 0 /\ jsonEnd > 0
               THEN SubSeq(jsonCandidate, 1, jsonEnd)
               ELSE cleanedOutput
              : lastJsonStart \in {LastJsonStart(cleanedOutput)}})
         : cleanedOutput \in
             {Trim(RemoveAll("control",
                     RemoveAll("csi",
                       RemoveAll("osc",
                         RemoveAll("csi", RemoveAll("progress", stdout))))))}})

\* The bodies of the string values: characters, \" and \\ .
StringUnits == {<<"{">>, <<"}">>, <<"x">>, <<"\\", "\"">>, <<"\\", "\\">>}

RECURSIVE StringBodies(_)
StringBodies(n) ==
  IF n = 0 THEN {<<>>}
  ELSE LET shorter == StringBodies(n - 1)
       IN shorter \cup {b \o u : b \in shorter, u \in StringUnits}

\* The string a JSON string body stands for.
RECURSIVE Unescape(_)
Unescape(body) ==
  IF body = <<>> THEN <<>>
  ELSE IF Head(body) = "\\" THEN <<body[2]>> \o Unescape(SubSeq(body, 3, Len(body)))
  ELSE <<Head(body)>> \o Unescape(Tail(body))

KeyError == <<"\"", "E", "r", "r", "o", "r", "\"">>

\* ConvertTo-Json of the hashtable the script of buildInvokeScript prints
\* (lines 1210-1226): one member a line; a hashtable has no fixed key order.
ResultObject(ok, successFirst, body) ==
  LET flag == KeySuccess \o <<":", SP>>
                \o (IF ok THEN <<"t", "r", "u", "e">>
                    ELSE <<"f", "a", "l", "s", "e">>)
      value == (IF ok THEN KeyData ELSE KeyError)
                 \o <<":", SP, "\"">> \o body \o <<"\"">>
      first == IF successFirst THEN flag ELSE value
      second == IF successFirst THEN value ELSE flag
  IN <<"{", LF, SP, SP>> \o first \o <<",", LF, SP, SP>> \o second
       \o <<LF, "}">>

ResultShapes == BOOLEAN \X BOOLEAN \X StringBodies(MaxString)

\* ConvertTo-Json of the object the compile and publish entry points return
\* (part_000, lines 952-955 and 1004-1007), as printed inside the wrapper.
KeyApps == <<"\"", "A", "p", "p", "s", "\"">>
JsonFlag(flag) ==
  IF flag THEN <<"t", "r", "u", "e">> ELSE <<"f", "a", "l", "s", "e">>
InnerObject(allSuccess) ==
  <<"{", LF, SP, SP, SP, SP>> \o KeySuccess \o <<":", SP>>
    \o JsonFlag(allSuccess) \o <<",", LF, SP, SP, SP, SP>> \o KeyApps
    \o <<":", SP, "[", "]", LF, SP, SP, "}">>

\* The wrapper of buildInvokeScript around that object, lines 1214-1217.
WrapperObject(successFirst, allSuccess) ==
  LET flag == KeySuccess \o <<":", SP>> \o JsonFlag(TRUE)
      value == KeyData \o <<":", SP>> \o InnerObject(allSuccess)
      first == IF successFirst THEN flag ELSE value
      second == IF successFirst THEN value ELSE flag
  IN <<"{", LF, SP, SP>> \o first \o <<",", LF, SP, SP>> \o second
       \o <<LF, "}">>

\* JSON.parse of a wrapper with an object as Data, and of that object alone
\* (the object stands for itself as a value).
JsonParseObjects(text) ==
  LET wrappers == {w \in BOOLEAN \X BOOLEAN : WrapperObject(w[1], w[2]) = text}
      inners == {f \in BOOLEAN : InnerObject(f) = text}
  IN IF wrappers # {}
     THEN [kind |-> "object",
           obj |-> [EmptyObj EXCEPT !["Success"] = "true",
                                    !["Data"] = InnerObject(The(wrappers)[2])]]
     ELSE IF inners # {}
     THEN [kind |-> "object",
           obj |-> [EmptyObj EXCEPT
                      !["Success"] = IF The(inners) THEN "true" ELSE "false"]]
     ELSE ParseError

\* JSON.parse of the texts the demuxer hands over: the text of a result
\* object parses to that object, any other text it can hand over here (a cut
\* object, an object with text around it) is not JSON.
JsonParseText(text) ==
  LET shapes == {sh \in ResultShapes : ResultObject(sh[1], sh[2], sh[3]) = text}
  IN IF shapes = {} THEN JsonParseObjects(text)
     ELSE LET sh == CHOOSE x \in shapes : TRUE
          IN [kind |-> "object",
              obj |-> IF sh[1]
                      THEN [EmptyObj EXCEPT !["Success"] = "true",
                                            !["Data"] = Unescape(sh[3])]
                      ELSE [EmptyObj EXCEPT !["Success"] = "false",
                                            !["Error"] = Unescape(sh[3])]]

\* The value the close handler of the second runner resolves with, lines
\* 1553-1640.
RawResultOfStdout(pr, code) ==
  IF pr.cancelled
  THEN [success |-> FALSE, data |-> <<>>, error |-> "Operation was cancelled",
        cancelled |-> TRUE]
  ELSE IF code # "0" /\ pr.stdout = <<>>
  THEN [success |-> FALSE, data |-> <<>>,
        error |-> ExitMessage(pr.stderr, code), cancelled |-> FALSE]
  ELSE [success |-> TRUE, data |-> CleanedOutput(pr.stdout), error |-> Undef,
        cancelled |-> FALSE]

\* parseJsonResult(result) of the second runner, lines 1373-1450.
parseStdoutResult(raw) ==
  IF raw.cancelled
  THEN [result |-> CancelledResult, extracted |-> <<>>, log |-> NoLog]
  ELSE IF ~raw.success \/ raw.data = <<>>
  THEN [result |-> Failure(IF raw.error = Undef
                           THEN "No data returned from PowerShell"
                           ELSE raw.error),
        extracted |-> <<>>, log |-> NoLog]
  ELSE The({The({LET debug ==
                        SetToBag({[tag |-> "[DEBUG] First 50 bytes hex",
                                   text |-> cleanedData],
                                  [tag |-> "[DEBUG] Cleaned data starts with",
                                   text |-> cleanedData]})
                  IN IF Throws(parsed)
                     THEN [result |-> Failure("Failed to parse PowerShell output"),
                           extracted |-> cleanedData,
                           log |-> debug
                                     (+) SetToBag({[tag |-> "[DEBUG] Failed to parse output",
                                                    text |-> raw.data]})]
                     ELSE [result |-> FromDocument(parsed),
                           extracted |-> cleanedData, log |-> debug]
                    : parsed \in {JsonParseText(cleanedData)}})
              : cleanedData \in {extractJson(raw.data)}})

\* proc.on("close") of the second runner, lines 1546-1641, followed by the
\* continuation of executeWithProgress (line 1238).
CloseStdoutJob(p, code) ==
  /\ procs[p].st = "running"
  /\ procs[p].kind \in BuildKinds
  /\ CanClose(procs[p], code)
  /\ \E raw \in {RawResultOfStdout(procs[p], code)} :
     \E dec \in {parseStdoutResult(raw)} :
        /\ procs' = [procs EXCEPT ![p].st = "closed",
                                  ![p].timerArmed = FALSE,
                                  ![p].tokenArmed = FALSE,
                                  ![p].resolved = TRUE,
                                  ![p].result = dec.result,
                                  ![p].cleaned = raw.data,
                                  ![p].extracted = dec.extracted,
                                  ![p].seen = [code |-> code, readOk |-> TRUE,
                                               file |-> NoFile]]
        /\ outputChannel' = Log(dec.log)
  /\ runningProcess' = 0
  /\ UNCHANGED <<configManager, resultsView, killTimers, files, cancelCalls, child>>

\* What a child prints before its result object.
NoiseTexts ==
  {<<>>,
   <<"n", "o", "i", "s", "e", SP>>,
   <<"{", "\"", "a", "\"", ":", "1", ",", "\"", "b", "\"", ":", "\"", "}", "{",
     "\"", "}", SP, "m", "o", "r", "e", SP>>,
   WarningPrefix \o <<SP, "x", LF>>,
   <<ESC, "[", "3", "3", ";", "1", "m", "x", ESC, "[", "0", "m", LF>>,
   ProgressPrefix \o <<"{", "\"", "p", "\"", ":", "1", "}", "#", "#", LF>>}

\* A job of the second runner whose child has printed noise and then its
\* result object, and is about to close.
ExtractInit ==
  \E kind \in BuildKinds, noise \in NoiseTexts, sh \in ResultShapes,
     trailing \in {<<>>, <<LF>>}, cancelled \in BOOLEAN :
    /\ procs = [p \in ProcIds |->
                  IF p = 1
                  THEN [NoProc EXCEPT
                          !.st = "running", !.kind = kind,
                          !.timerArmed = TRUE, !.exitsOnOwn = TRUE,
                          !.cancelled = cancelled, !.sigterm = cancelled,
                          !.final = ResultObject(sh[1], sh[2], sh[3]),
                          !.stdout = noise \o ResultObject(sh[1], sh[2], sh[3])
                                       \o trailing]
                  ELSE NoProc]
    /\ files = [p \in ProcIds |-> NoFile]
    /\ runningProcess = 1
    /\ killTimers = 0
    /\ outputChannel = SetToBag({Line("Executing PowerShell"),
                                 Line("Working directory")})
    /\ cancelCalls = 0
    /\ child = NoChild
    /\ configManager = NoManager
    /\ resultsView = NoView

ExtractNext == \E p \in ProcIds, code \in Codes : CloseStdoutJob(p, code)

ExtractSpec == ExtractInit /\ [][ExtractNext]_vars

\* stripAnsiCodes on its own: every text over the characters its patterns
\* tell apart.
StripAlphabet == {ESC, BEL, "[", "]", "0", ";", "m", "x", LF}

Texts == UNION {[1..n -> StripAlphabet] : n \in 0..MaxText}

StripInit ==
  \E text \in Texts :
    /\ procs = [p \in ProcIds |->
                  IF p = 1 THEN [NoProc EXCEPT !.st = "text", !.stdout = text]
                  ELSE NoProc]
    /\ files = [p \in ProcIds |-> NoFile]
    /\ runningProcess = 0
    /\ killTimers = 0
    /\ outputChannel = EmptyBag
    /\ cancelCalls = 0
    /\ child = NoChild
    /\ configManager = NoManager
    /\ resultsView = NoView

StripText(p) ==
  /\ procs[p].st = "text"
  /\ procs' = [procs EXCEPT ![p].st = "stripped",
                            ![p].stripped = stripAnsiCodes(procs[p].stdout)]
  /\ UNCHANGED <<configManager, resultsView, runningProcess, killTimers, files, outputChannel, cancelCalls,
                 child>>

StripNext == \E p \in ProcIds : StripText(p)

StripSpec == StripInit /\ [][StripNext]_vars

\* ------------------------------------------------------ the progress route
\* What the child of the second runner prints while it works: progress
\* markers ##PROGRESS##{json}## and plain text, then its result object.
ProgressIds == {"1", "2"}
MarkerJson(n) == <<"{", "\"", "p", "\"", ":", n, "}">>
MarkerEnd == <<"#", "#">>
ProgressMarker(n) == ProgressPrefix \o MarkerJson(n) \o MarkerEnd
PlainText == <<"o", "k", LF>>
FinalObject == ResultObject(TRUE, TRUE, <<"x">>)

\* text.match(/##PROGRESS##({.*})##/), line 1527: the capture of the leftmost
\* match, with the greedy .* taking the longest run on the line, as a
\* sequence of one text (<<>>: no match).
ProgressMatch(text) ==
  LET brace(i) == i + Len(ProgressPrefix)
      ends(i) == {j \in (brace(i) + 1)..Len(text) :
                    /\ text[j] = "}"
                    /\ StartsWith(text, j + 1, MarkerEnd)
                    /\ \A k \in (brace(i) + 1)..(j - 1) :
                         text[k] \notin LineTerminators}
      starts == {i \in 1..Len(text) :
                   /\ StartsWith(text, i, ProgressPrefix \o <<"{">>)
                   /\ ends(i) # {}}
  IN IF starts = {} THEN <<>>
     ELSE The({<<SubSeq(text, brace(i), Max(ends(i)))>>
                 : i \in {FirstOf(starts, text, 1)}})

\* JSON.parse(progressMatch[1]), line 1530: the JSON of a marker parses to
\* its progress update, a capture that runs over two markers is not JSON
\* (<<>>: the parse threw).
ParseProgress(capture) ==
  LET ids == {n \in ProgressIds : MarkerJson(n) = capture}
  IN IF ids = {} THEN <<>> ELSE <<The(ids)>>

\* The child prints a marker or plain text.
ChildEmit(p, unit) ==
  /\ procs[p].st = "running"
  /\ procs[p].kind \in BuildKinds
  /\ procs[p].final = <<>>
  /\ Len(procs[p].emits) < MaxEmits
  /\ procs' = [procs EXCEPT
                 ![p].emits = Append(@, unit),
                 ![p].pending = @ \o (IF unit \in ProgressIds
                                      THEN ProgressMarker(unit)
                                      ELSE PlainText)]
  /\ UNCHANGED <<configManager, resultsView, runningProcess, killTimers, files, outputChannel, cancelCalls,
                 child>>

\* The child prints its result object and ends.
ChildEmitResult(p) ==
  /\ procs[p].st = "running"
  /\ procs[p].kind \in BuildKinds
  /\ procs[p].final = <<>>
  /\ procs' = [procs EXCEPT ![p].final = FinalObject,
                            ![p].pending = @ \o FinalObject]
  /\ UNCHANGED <<configManager, resultsView, runningProcess, killTimers, files, outputChannel, cancelCalls,
                 child>>

\* Where the pipe can cut what the child has printed into chunks: at the end
\* of what is there, and inside the first marker.
ChunkLengths(pending) ==
  {k \in {Len(pending), Len(ProgressPrefix) + 1} : 1 <= k /\ k <= Len(pending)}

\* proc.stdout.on("data") of the second runner, lines 1521-1538.
ProgressData(p, k) ==
  /\ procs[p].st = "running"
  /\ procs[p].kind \in BuildKinds
  /\ k \in ChunkLengths(procs[p].pending)
  /\ \E text \in {SubSeq(procs[p].pending, 1, k)} :
     \E progressMatch \in {ProgressMatch(text)} :
     \E progress \in {IF progressMatch = <<>> THEN <<>>
                      ELSE ParseProgress(progressMatch[1])} :
       /\ procs' = [procs EXCEPT
                      ![p].pending = SubSeq(@, k + 1, Len(@)),
                      ![p].stdout = @ \o text,
                      ![p].chunks = Append(@, text),
                      ![p].onProgress = @ \o progress]
       /\ outputChannel' = IF progressMatch = <<>> THEN Log(Echo(text))
                           ELSE outputChannel
  /\ UNCHANGED <<configManager, resultsView, runningProcess, killTimers, files, cancelCalls, child>>

\* The close event comes when the child has ended and its output is read.
CloseProgressJob(p, code) ==
  /\ procs[p].pending = <<>>
  /\ procs[p].final # <<>> \/ procs[p].sigterm
  /\ CloseStdoutJob(p, code)

\* A job of the second runner, spawned, its child about to print.
ProgressInit ==
  \E kind \in BuildKinds, cancelled \in BOOLEAN :
    /\ procs = [p \in ProcIds |->
                  IF p = 1
                  THEN [NoProc EXCEPT
                          !.st = "running", !.kind = kind,
                          !.timerArmed = TRUE, !.exitsOnOwn = TRUE,
                          !.cancelled = cancelled, !.sigterm = cancelled]
                  ELSE NoProc]
    /\ files = [p \in ProcIds |-> NoFile]
    /\ runningProcess = 1
    /\ killTimers = 0
    /\ outputChannel = SetToBag({Line("Executing PowerShell"),
                                 Line("Working directory")})
    /\ cancelCalls = 0
    /\ child = NoChild
    /\ configManager = NoManager
    /\ resultsView = NoView

ProgressNext ==
  \E p \in ProcIds :
    \/ \E unit \in ProgressIds \cup {"text"} : ChildEmit(p, unit)
    \/ ChildEmitResult(p)
    \/ \E k \in 1..(MaxEmits + 1) * Len(ProgressMarker("1")) + Len(FinalObject) :
         ProgressData(p, k)
    \/ StderrData(p)
    \/ \E code \in Codes : CloseProgressJob(p, code)

ProgressSpec == ProgressInit /\ [][ProgressNext]_vars

\* ------------------------------------------------------ the stack traces
\* Get-ParsedStackTrace of the module, on texts of characters.
Digits == {"0", "1", "2", "3", "4", "5", "6", "7", "8", "9"}
WordChars == Letters \cup Digits \cup {"_"}
LineWord == <<"l", "i", "n", "e">>

\* The largest [int], as decimal digits.
MaxInt32 == <<"2", "1", "4", "7", "4", "8", "3", "6", "4", "7">>

\* A numeral without its leading zeros ("0" for zero).
Numeral(digits) ==
  LET i == SkipChars(digits, 1, {"0"})
  IN IF i > Len(digits) THEN <<"0">> ELSE SubSeq(digits, i, Len(digits))

DigitOrder == <<"0", "1", "2", "3", "4", "5", "6", "7", "8", "9">>
DigitRank(c) == CHOOSE r \in 1..Len(DigitOrder) : DigitOrder[r] = c

\* a <= b for numerals of the same length.
NumeralLeq(a, b) ==
  \/ a = b
  \/ \E i \in 1..Len(a) :
       /\ DigitRank(a[i]) < DigitRank(b[i])
       /\ \A k \in 1..(i - 1) : a[k] = b[k]

\* [int]$text of a text of digits: the number, as a numeral (<<>>: the
\* conversion raises, the value does not fit a 32-bit integer).
ToInt32(digits) ==
  LET n == Numeral(digits)
  IN IF \/ Len(n) < Len(MaxInt32)
        \/ Len(n) = Len(MaxInt32) /\ NumeralLeq(n, MaxInt32)
     THEN n ELSE <<>>

\* The match of the pattern of line 238 that starts at index i of s:
\*   (?<codeunit>[^(]+)\((?<id>\d+)\)\.(?<method>\w+)\s+line\s+(?<line>\d+)
\* Every quantifier ends at a character outside its class, so a start has at
\* most one match (<<>>: none).
TraceMatchAt(s, i) ==
  LET open == FindChar(s, i, {"("})
      close == SkipChars(s, open + 1, Digits)
      method == close + 2
      blank == SkipChars(s, method, WordChars)
      word == SkipChars(s, blank, WhiteSpace)
      blank2 == word + Len(LineWord)
      number == SkipChars(s, blank2, WhiteSpace)
      end == SkipChars(s, number, Digits)
  IN IF /\ i < open /\ open <= Len(s)
        /\ open + 1 < close /\ close <= Len(s) /\ s[close] = ")"
        /\ close + 1 <= Len(s) /\ s[close + 1] = "."
        /\ method < blank /\ blank < word
        /\ StartsWith(s, word, LineWord)
        /\ blank2 < number /\ number < end
     THEN <<[codeunit |-> SubSeq(s, i, open - 1),
             id |-> SubSeq(s, open + 1, close - 1),
             method |-> SubSeq(s, method, blank - 1),
             line |-> SubSeq(s, number, end - 1)]>>
     ELSE <<>>

\* [regex]::Match($StackTraceText, $pattern), line 240: the leftmost match.
TraceMatch(s) ==
  LET starts == {i \in 1..Len(s) : TraceMatchAt(s, i) # <<>>}
  IN IF starts = {} THEN <<>> ELSE TraceMatchAt(s, FirstOf(starts, s, 1))

NoStackInfo ==
  [status |-> "null", codeunit |-> <<>>, codeunitId |-> <<>>, method |-> <<>>,
   lineNumber |-> <<>>]

\* Get-ParsedStackTrace, lines 220-267, without the search for the file:
\* null, the parsed frame, or the error of an [int] conversion.
GetParsedStackTrace(StackTraceText) ==
  LET regexMatch == TraceMatch(StackTraceText)
  IN IF StackTraceText = <<>> \/ regexMatch = <<>> THEN NoStackInfo
     ELSE The({IF ToInt32(m.id) = <<>> \/ ToInt32(m.line) = <<>>
               THEN [NoStackInfo EXCEPT !.status = "error"]
               ELSE [status |-> "value",
                     codeunit |-> Trim(m.codeunit),
                     codeunitId |-> ToInt32(m.id),
                     method |-> m.method,
                     lineNumber |-> ToInt32(m.line)]
                 : m \in {regexMatch[1]}})

\* The LineNumber of the failure record, lines 641-658 (<<>>: $null).
FailureLineNumber(stackInfo) ==
  IF stackInfo.status = "value" THEN stackInfo.lineNumber ELSE <<>>

\* The traces: a frame with text before and after it, and texts without one.
CodeunitNames == {<<"T">>, <<"P", "T", "E", SP, "H", "S">>}
IdTexts == {<<"1">>, <<"8", "0", "0", "0", "2">>, <<"0", "7">>, MaxInt32,
            <<"2", "1", "4", "7", "4", "8", "3", "6", "4", "8">>}
MethodNames == {<<"M">>, <<"m", "_", "1">>}
LineTexts == {<<"2", "5">>, <<"9", "9", "9", "9", "9", "9", "9", "9", "9", "9">>}
Before == {<<>>, <<SP>>, <<"f", "(", ")">>}
After == {<<>>, <<LF, "x">>}
Frame(name, id, method, line) ==
  name \o <<"(">> \o id \o <<")", ".">> \o method \o <<SP>> \o LineWord
    \o <<SP>> \o line
Frames ==
  {[before |-> b, name |-> n, id |-> i, method |-> m, line |-> l, after |-> a]
     : b \in Before, n \in CodeunitNames, i \in IdTexts, m \in MethodNames,
       l \in LineTexts, a \in After}
NoFrame == [before |-> <<>>, name |-> <<>>, id |-> <<>>, method |-> <<>>,
            line |-> <<>>, after |-> <<>>]
Frameless ==
  {<<>>, <<"i", "n", "v", "a", "l", "i", "d", SP, "s", "t", "a", "c", "k">>,
   <<"T", "(", "x", ")", ".", "M", SP>> \o LineWord \o <<SP, "1">>,
   <<"T", "(", "1", ")", "M", SP>> \o LineWord \o <<SP, "1">>,
   <<"T", "(", "1", ")", ".", "M", SP, "1">>,
   <<"(", "1", ")", ".", "M", SP>> \o LineWord \o <<SP, "1">>}

TraceInit ==
  /\ \/ \E f \in Frames :
          procs = [p \in ProcIds |->
                     IF p = 1
                     THEN [NoProc EXCEPT
                             !.st = "trace", !.frame = f,
                             !.trace = f.before
                                         \o Frame(f.name, f.id, f.method, f.line)
                                         \o f.after]
                     ELSE NoProc]
     \/ \E text \in Frameless :
          procs = [p \in ProcIds |->
                     IF p = 1
                     THEN [NoProc EXCEPT !.st = "trace", !.trace = text]
                     ELSE NoProc]
  /\ files = [p \in ProcIds |-> NoFile]
  /\ runningProcess = 0
  /\ killTimers = 0
  /\ outputChannel = EmptyBag
  /\ cancelCalls = 0
  /\ child = NoChild
  /\ configManager = NoManager
  /\ resultsView = NoView

\* A failed test's record is built, lines 640-660.
ParseTrace(p) ==
  /\ procs[p].st = "trace"
  /\ \E stackInfo \in {GetParsedStackTrace(procs[p].trace)} :
       procs' = [procs EXCEPT ![p].st = "parsed",
                              ![p].stackInfo = stackInfo,
                              ![p].lineNumber = FailureLineNumber(stackInfo)]
  /\ UNCHANGED <<configManager, resultsView, runningProcess, killTimers, files, outputChannel, cancelCalls,
                 child>>

TraceNext == \E p \in ProcIds : ParseTrace(p)

TraceSpec == TraceInit /\ [][TraceNext]_vars

\* ------------------------------------------------------ nested result data
\* A compile or publish job of the second runner whose child has printed
\* noise and then the wrapper around the entry point's object, and is about
\* to close.
NestedInit ==
  \E kind \in BuildKinds, noise \in NoiseTexts, successFirst \in BOOLEAN,
     allSuccess \in BOOLEAN, trailing \in {<<>>, <<LF>>}, cancelled \in BOOLEAN :
    /\ procs = [p \in ProcIds |->
                  IF p = 1
                  THEN [NoProc EXCEPT
                          !.st = "running", !.kind = kind,
                          !.timerArmed = TRUE, !.exitsOnOwn = TRUE,
                          !.cancelled = cancelled, !.sigterm = cancelled,
                          !.final = WrapperObject(successFirst, allSuccess),
                          !.stdout = noise
                                       \o WrapperObject(successFirst, allSuccess)
                                       \o trailing]
                  ELSE NoProc]
    /\ files = [p \in ProcIds |-> NoFile]
    /\ runningProcess = 1
    /\ killTimers = 0
    /\ outputChannel = SetToBag({Line("Executing PowerShell"),
                                 Line("Working directory")})
    /\ cancelCalls = 0
    /\ child = NoChild
    /\ configManager = NoManager
    /\ resultsView = NoView

NestedSpec == NestedInit /\ [][ExtractNext]_vars

\* ------------------------------------------------------ the config manager
\* ConfigManager (part_003).  The search locations of findConfigFile in the
\* one workspace folder, in their order of preference, and a config file
\* that only the glob search finds.
SearchPatterns ==
  <<"bctest.config.json", "BCTestRunner/bctest.config.json",
    ".vscode/bctest.config.json">>
GlobOnly == {"app/bctest.config.json"}
ConfigFiles == {SearchPatterns[i] : i \in 1..Len(SearchPatterns)} \cup GlobOnly

\* _invalidateCache(), lines 53-56.
InvalidateCache(m) ==
  [m EXCEPT !.cachedConfig = Undef, !.cachedConfigPath = Undef]

\* A config file is created, changed or deleted; the watcher will report it.
FileEvent(f, kind) ==
  /\ configManager.events < MaxEvents
  /\ CASE kind = "create" -> f \notin configManager.exists
       [] kind = "delete" -> f \in configManager.exists
       [] OTHER -> f \in configManager.exists
  /\ configManager' =
       [configManager EXCEPT
          !.events = @ + 1,
          !.exists = CASE kind = "create" -> @ \cup {f}
                       [] kind = "delete" -> @ \ {f}
                       [] OTHER -> @]
  /\ UNCHANGED <<procs, runningProcess, killTimers, files, outputChannel,
                 cancelCalls, child, resultsView>>

\* The watcher's onDidChange / onDidCreate / onDidDelete, lines 37-47.
WatcherEvent ==
  /\ configManager.events > 0
  /\ configManager' = [InvalidateCache(configManager) EXCEPT !.events = @ - 1]
  /\ UNCHANGED <<procs, runningProcess, killTimers, files, outputChannel,
                 cancelCalls, child, resultsView>>

\* findConfigFile() up to its return or its await, lines 62-91.
FindConfigFile ==
  /\ configManager.finds < MaxLoads
  /\ configManager' =
       LET m == configManager
           found == {i \in 1..Len(SearchPatterns) :
                       SearchPatterns[i] \in m.exists}
       IN IF m.cachedConfigPath # Undef /\ m.cachedConfigPath \in m.exists
          THEN m
          ELSE IF found # {}
          THEN [m EXCEPT !.cachedConfigPath =
                           SearchPatterns[CHOOSE i \in found :
                                            \A j \in found : i <= j]]
          ELSE [m EXCEPT !.finds = @ + 1]
  /\ UNCHANGED <<procs, runningProcess, killTimers, files, outputChannel,
                 cancelCalls, child, resultsView>>

\* findConfigFile() after the glob search, lines 92-101: files[0] is any one
\* of the config files there are.
FindFallback ==
  /\ configManager.finds > 0
  /\ \E f \in configManager.exists \cup {Undef} :
       /\ f = Undef <=> configManager.exists = {}
       /\ configManager' =
            [configManager EXCEPT
               !.finds = @ - 1,
               !.cachedConfigPath = IF f = Undef THEN @ ELSE f]
  /\ UNCHANGED <<procs, runningProcess, killTimers, files, outputChannel,
                 cancelCalls, child, resultsView>>

\* loadConfig(configPath), lines 118-157: the cached config, an error (file
\* missing, invalid JSON, failed validation), or the config read from the
\* file, which is cached.
LoadConfig(configPath, valid) ==
  /\ configManager' =
       LET m == configManager
       IN IF m.cachedConfig # Undef /\ m.cachedConfigPath = configPath
          THEN [m EXCEPT !.returned = [asked |-> configPath,
                                       config |-> m.cachedConfig]]
          ELSE IF configPath \notin m.exists \/ ~valid
          THEN [m EXCEPT !.returned = [asked |-> configPath, config |-> Undef]]
          ELSE [m EXCEPT !.cachedConfig = configPath,
                         !.cachedConfigPath = configPath,
                         !.returned = [asked |-> configPath,
                                       config |-> configPath]]
  /\ UNCHANGED <<procs, runningProcess, killTimers, files, outputChannel,
                 cancelCalls, child, resultsView>>

\* The extension with its ConfigManager constructed, in a workspace with any
\* of the config files.
ConfigInit ==
  /\ procs = [p \in ProcIds |-> NoProc]
  /\ runningProcess = 0
  /\ killTimers = 0
  /\ files = [p \in ProcIds |-> NoFile]
  /\ outputChannel = EmptyBag
  /\ cancelCalls = 0
  /\ child = NoChild
  /\ \E S \in SUBSET ConfigFiles : configManager = [NoManager EXCEPT !.exists = S]
  /\ resultsView = NoView

ConfigNext ==
  \/ \E f \in ConfigFiles, kind \in {"create", "change", "delete"} :
       FileEvent(f, kind)
  \/ WatcherEvent
  \/ FindConfigFile
  \/ FindFallback
  \/ \E configPath \in ConfigFiles, valid \in BOOLEAN :
       LoadConfig(configPath, valid)

ConfigSpec == ConfigInit /\ [][ConfigNext]_vars

\* ------------------------------------------------------- the results view
\* TestResultsTreeDataProvider (views/TestResultsView.ts).  loadResults()
\* is asynchronous: it runs up to its await of getLatestResults, which reads
\* the latest results file in a PowerShell process, and assigns this.results
\* when that process has answered.
FreeLoads == {l \in LoadIds : resultsView.loads[l].pc = "none"}

\* loadResults() is called, lines 134-143: the call takes a free slot and
\* waits for getLatestResults.
StartLoad(v, l) ==
  [v EXCEPT !.issued = @ + 1,
            !.loads[l] = [pc |-> "await", data |-> 0, seq |-> v.issued + 1]]

\* refresh(), lines 129-132: the load is started and the change event is
\* fired at once, without waiting for the load.
RefreshView(v, l) ==
  [StartLoad(v, l) EXCEPT !.fired = 1, !.refreshed = v.issued + 1]

Refresh ==
  /\ resultsView.issued <= MaxRefreshes
  /\ \E l \in FreeLoads : resultsView' = RefreshView(resultsView, l)
  /\ UNCHANGED <<configManager, procs, runningProcess, killTimers, files,
                 outputChannel, cancelCalls, child>>

\* A test run has written its results file and the extension refreshes the
\* view, extension.ts lines 301-302.
RunTestsRefresh ==
  /\ resultsView.issued <= MaxRefreshes
  /\ resultsView.latest < MaxRuns
  /\ \E l \in FreeLoads :
       resultsView' =
         RefreshView([resultsView EXCEPT !.latest = @ + 1], l)
  /\ UNCHANGED <<configManager, procs, runningProcess, killTimers, files,
                 outputChannel, cancelCalls, child>>

\* getLatestResults reads the newest results file, PowerShellRunner.ts
\* lines 1132-1170.
LoadRead(l) ==
  /\ resultsView.loads[l].pc = "await"
  /\ resultsView' =
       [resultsView EXCEPT
          !.loads[l].pc = "read",
          !.loads[l].data = resultsView.latest,
          !.loaded = IF resultsView.loads[l].seq = resultsView.refreshed
                     THEN [seq |-> resultsView.refreshed,
                           data |-> resultsView.latest]
                     ELSE @]
  /\ UNCHANGED <<configManager, procs, runningProcess, killTimers, files,
                 outputChannel, cancelCalls, child>>

\* loadResults() after its await, lines 144-149: this.results is assigned.
LoadStore(l) ==
  /\ resultsView.loads[l].pc = "read"
  /\ resultsView' = [resultsView EXCEPT !.results = resultsView.loads[l].data,
                                        !.stored = resultsView.loads[l].seq,
                                        !.loads[l] = NoLoad]
  /\ UNCHANGED <<configManager, procs, runningProcess, killTimers, files,
                 outputChannel, cancelCalls, child>>

\* The tree view handles the change event: it calls getChildren(), lines
\* 160-187, which shows what this.results holds at that moment.
GetChildren ==
  /\ resultsView.fired > 0
  /\ resultsView' = [resultsView EXCEPT !.fired = 0,
                                        !.displayed = resultsView.results]
  /\ UNCHANGED <<configManager, procs, runningProcess, killTimers, files,
                 outputChannel, cancelCalls, child>>

\* After construction, lines 123-127: the constructor has called
\* loadResults(), and the view is about to ask for its items the first time.
ViewInit ==
  /\ procs = [p \in ProcIds |-> NoProc]
  /\ runningProcess = 0
  /\ killTimers = 0
  /\ files = [p \in ProcIds |-> NoFile]
  /\ outputChannel = EmptyBag
  /\ cancelCalls = 0
  /\ child = NoChild
  /\ configManager = NoManager
  /\ \E n \in 0..1 :
       resultsView = [StartLoad([NoView EXCEPT !.latest = n], 1)
                        EXCEPT !.fired = 1]

ViewNext ==
  \/ Refresh
  \/ RunTestsRefresh
  \/ \E l \in LoadIds : LoadRead(l)
  \/ \E l \in LoadIds : LoadStore(l)
  \/ GetChildren

ViewSpec == ViewInit /\ [][ViewNext]_vars

\* The event loop delivers every answer and every change event.
FairViewSpec ==
  /\ ViewSpec
  /\ \A l \in LoadIds : WF_vars(LoadRead(l)) /\ WF_vars(LoadStore(l))
  /\ WF_vars(GetChildren)

\* ------------------------------------------------------ the exported document
\* Export-TestResultsForAI of the PowerShell module, in its two versions:
\* part_000 (schema 1.1, with the CompilationResults parameter and the
\* compilation section) and part_001 (schema 1.0, without them).  A
\* compilation result is its Success flag, a test failure its Codeunit and
\* FilePath; a suggested action is its wording with the count and the name
\* it mentions.
Schemas == {"1.1", "1.0"}
Codeunits == <<"Tests A", "Tests B">>
FilePaths == {"", "src/A.al"}
FailureSet == [Codeunit : {Codeunits[i] : i \in 1..Len(Codeunits)},
               FilePath : FilePaths]

SeqsUpTo(S, n) == UNION {[1..k -> S] : k \in 0..n}

Action(kind, count, name) == [kind |-> kind, count |-> count, name |-> name]
FixCompilation ==
  Action("Fix compilation errors before running tests", 0, "")
AllPassed ==
  Action("All tests passed - consider adding more test coverage", 0, "")

\* if ($CompilationResults): an absent parameter and an empty array are
\* false, an array of result objects is true.
Truthy(supplied, compilation) == supplied /\ Len(compilation) > 0

\* $output.compilation.success after "Process compilation results", part_000
\* lines 735-738 and 764-796; the document of part_001 has no compilation
\* section, and the property of the missing section reads as $null.
CompilationSuccess(schema, supplied, compilation) ==
  IF schema = "1.0" THEN "null"
  ELSE IF ~Truthy(supplied, compilation) THEN "true"
  ELSE IF \A i \in 1..Len(compilation) : compilation[i] THEN "true"
  ELSE "false"

\* Group-Object -Property Codeunit: one group per codeunit, in the order of
\* the names, with the number of its failures.
GroupActions(failures) ==
  LET count(c) == Cardinality({i \in 1..Len(failures) :
                                 failures[i].Codeunit = c})
      RECURSIVE groups(_)
      groups(i) ==
        IF i > Len(Codeunits) THEN <<>>
        ELSE (IF count(Codeunits[i]) > 0
              THEN <<Action("Investigate failure(s) in",
                            count(Codeunits[i]), Codeunits[i])>>
              ELSE <<>>) \o groups(i + 1)
  IN groups(1)

\* Where-Object { $_.FilePath } | Select-Object -Unique: the file paths that
\* are not empty, each once, in the order of their first failure.
FileActions(failures) ==
  LET RECURSIVE files_(_)
      files_(i) ==
        IF i > Len(failures) THEN <<>>
        ELSE (IF /\ failures[i].FilePath # ""
                 /\ \A j \in 1..(i - 1) :
                      failures[j].FilePath # failures[i].FilePath
              THEN <<Action("Check file:", 0, failures[i].FilePath)>>
              ELSE <<>>) \o files_(i + 1)
  IN files_(1)

\* "Generate AI suggestions based on results", part_000 lines 847-866.
TestActions(tested, failures) ==
  IF ~tested THEN <<>>
  ELSE IF Len(failures) > 0
  THEN <<Action("Review failing test(s)", Len(failures), "")>>
         \o GroupActions(failures) \o FileActions(failures)
  ELSE <<AllPassed>>

\* aiContext.suggestedActions of the document, with "Add compilation error
\* suggestions" (part_000 lines 868-871, part_001 lines 602-605):
\* -not $null and -not $false are both true.
SuggestedActions(schema, supplied, compilation, tested, failures) ==
  IF CompilationSuccess(schema, supplied, compilation) # "true"
  THEN <<FixCompilation>> \o TestActions(tested, failures)
  ELSE TestActions(tested, failures)

\* Calls of Export-TestResultsForAI about to be made; the version without
\* the parameter is called without compilation results.
ExportInit ==
  /\ \E schema \in Schemas, supplied \in BOOLEAN, tested \in BOOLEAN :
       \E compilation \in SeqsUpTo(BOOLEAN, MaxApps) :
         \E failures \in SeqsUpTo(FailureSet, MaxFailures) :
           /\ schema = "1.0" => ~supplied
           /\ ~supplied => compilation = <<>>
           /\ ~tested => failures = <<>>
           /\ procs = [p \in ProcIds |->
                         IF p = 1
                         THEN [NoProc EXCEPT
                                 !.st = "export",
                                 !.export = [schema |-> schema,
                                             supplied |-> supplied,
                                             compilation |-> compilation,
                                             tested |-> tested,
                                             failures |-> failures,
                                             suggestedActions |-> <<>>]]
                         ELSE NoProc]
  /\ files = [p \in ProcIds |-> NoFile]
  /\ runningProcess = 0
  /\ killTimers = 0
  /\ outputChannel = EmptyBag
  /\ cancelCalls = 0
  /\ child = NoChild
  /\ configManager = NoManager
  /\ resultsView = NoView

\* Export-TestResultsForAI writes the document.
ExportTestResultsForAI(p) ==
  /\ procs[p].st = "export"
  /\ procs' = [procs EXCEPT
                 ![p].st = "exported",
                 ![p].export.suggestedActions =
                    SuggestedActions(procs[p].export.schema,
                                     procs[p].export.supplied,
                                     procs[p].export.compilation,
                                     procs[p].export.tested,
                                     procs[p].export.failures)]
  /\ UNCHANGED <<configManager, resultsView, runningProcess, killTimers,
                 files, outputChannel, cancelCalls, child>>

ExportNext == \E p \in ProcIds : ExportTestResultsForAI(p)

ExportSpec == ExportInit /\ [][ExportNext]_vars

\* The scheduling the event loop guarantees: an armed timer fires, a pending
\* process event is delivered.  An operator's cancel() and the child's own
\* output are not forced.
Fairness ==
  /\ \A p \in ProcIds : WF_vars(Timeout(p))
  /\ \A p \in ProcIds : WF_vars(\E code \in Codes, readOk \in BOOLEAN :
                                   Close(p, code, readOk))
  /\ \A p \in ProcIds : WF_vars(ErrorEvent(p))
  /\ \A p \in ProcIds : WF_vars(CloseAfterError(p))
  /\ WF_vars(KillTimerFire)

FairSpec == Spec /\ Fairness

SideChannelJobs == {p \in ProcIds : procs[p].kind \in SideChannelKinds}

\* C1: a runTests/executeTests job on which cancel() acted while its process
\* was running returns the Cancelled outcome (cancelled = true, success =
\* false) and leaves no result file, whatever the exit code, stdout or file.
C1_CancelReturnsCancelled ==
  \A p \in SideChannelJobs :
    (procs[p].resolved /\ procs[p].cancelReq) =>
      /\ procs[p].result.cancelled
      /\ ~procs[p].result.success
      /\ ~files[p].exists

\* C2: at most one external process started by the runner is running at any
\* time.
C2_AtMostOneRunning == Cardinality(Running) <= 1

\* C3: a job whose timeout elapsed while its child was running is eventually
\* resolved with the Cancelled outcome, also when the child never exits on
\* its own and ignores the graceful termination signal.
C3_TimeoutResolvesCancelled ==
  \A p \in ProcIds :
    [](procs[p].timedOut => <>(procs[p].resolved /\ procs[p].result.cancelled))

\* The close handler has run and the decoder has returned for job p.
Decoded(p) == procs[p].st = "closed" /\ procs[p].resolved

\* The process was not cancelled and executeRaw reported success.
ExecutedOk(p) ==
  /\ ~procs[p].cancelled
  /\ procs[p].seen.code = "0" \/ procs[p].stdout # <<>>

\* The decoder found the result file and read it.
ReadFile(p) ==
  /\ p \in SideChannelJobs
  /\ Decoded(p) /\ ExecutedOk(p)
  /\ procs[p].seen.file.exists /\ procs[p].seen.readOk

\* The decoder found no result file.
FileAbsent(p) ==
  /\ p \in SideChannelJobs
  /\ Decoded(p) /\ ~procs[p].cancelled
  /\ ~procs[p].seen.file.exists

\* C4 (as claimed): a side-channel job that exits without cancellation and
\* without a result file is decoded as a Failure, whatever stdout holds.
C4_NoFileIsFailure ==
  \A p \in ProcIds : FileAbsent(p) => ~procs[p].result.success

\* C5: a well-formed document with Success = true, read from the result file
\* of a job that ran without cancellation, is decoded as Success with the
\* document's Data.
C5_SuccessDocument ==
  \A p \in ProcIds : \A d \in Docs :
    (/\ ReadFile(p)
     /\ d["Success"] = "true" /\ d["Data"] # Undef
     /\ procs[p].seen.file.content = DocText[d])
    => /\ procs[p].result.success
       /\ ~procs[p].result.cancelled
       /\ procs[p].result.data = d["Data"]

C5_Witness ==
  \E p \in ProcIds :
    /\ ReadFile(p)
    /\ procs[p].seen.file.content = DocText[SuccessDoc("d2")]
    /\ procs[p].result.success
    /\ procs[p].result.data = "d2"

\* The Failure the decoder is to build from a document with Success = false.
FailureOf(d) ==
  Result(FALSE, Undef, d["Error"], TRUE,
         [message |-> d["Error"], type |-> d["Type"],
          scriptStackTrace |-> d["StackTrace"],
          targetObject |-> d["TargetObject"],
          fullyQualifiedErrorId |-> d["FullyQualifiedErrorId"]], FALSE)

\* The decoder read document text `text` (from the file, or from stdout when
\* there is no file to read).
DecoderRead(p, text) ==
  \/ ReadFile(p) /\ procs[p].seen.file.content = text
  \/ /\ Decoded(p) /\ ExecutedOk(p)
     /\ ~procs[p].seen.file.exists
     /\ procs[p].stdout = text

\* C6: a document with Success = false read by the decoder is returned as a
\* Failure whose error is the document's Error and whose errorDetails copy
\* Type, StackTrace, TargetObject and FullyQualifiedErrorId.
C6_FailureDocument ==
  \A p \in ProcIds : \A d \in Docs :
    (d["Success"] = "false" /\ DecoderRead(p, DocText[d]))
    => procs[p].result = FailureOf(d)

C6_Witness ==
  \E p \in ProcIds : \E d \in Docs :
    /\ d["Success"] = "false" /\ d["Error"] = "e2"
    /\ d["Type"] = "t1" /\ d["StackTrace"] = "s1" /\ d["TargetObject"] = "null"
    /\ d["FullyQualifiedErrorId"] = "f1"
    /\ ReadFile(p)
    /\ procs[p].seen.file.content = DocText[d]
    /\ procs[p].result.error = "e2"
    /\ procs[p].result.errorDetails.scriptStackTrace = "s1"

\* A result document: Success is present, and with Success = true so is Data.
WellShaped(d) ==
  /\ d["Success"] \in {"true", "false"}
  /\ d["Success"] = "true" => d["Data"] # Undef

IsResultDocument(text) ==
  \E d \in Docs : WellShaped(d) /\ text = DocText[d]

\* C7: result-file content that is not JSON, or is JSON but not shaped as a
\* result document, is decoded as a Failure.
C7_MalformedIsFailure ==
  \A p \in ProcIds :
    (ReadFile(p) /\ ~IsResultDocument(procs[p].seen.file.content))
    => ~procs[p].result.success

\* C10: once executeWithProgress has resolved, no file is left at the
\* invocation's result-channel path.
C10_NoFileAfterResolve ==
  \A p \in SideChannelJobs : procs[p].resolved => ~files[p].exists

\* C8: when an exception is raised in the entry point the script calls, the
\* job's result is a Failure whose error is the exception message.
C8_ExceptionIsFailure ==
  (/\ procs[ScriptProc].resolved
   /\ procs[ScriptProc].seen.readOk
   /\ child.raised # Undef)
  => /\ ~procs[ScriptProc].result.success
     /\ procs[ScriptProc].result.error = child.raised

\* C9: during one invocation the child writes the BC_RESULT_FILE path at most
\* once.
C9_FileWrittenOnce == child.writes <= 1

C12_SecondCancelNoEffect ==
  [][(/\ Cancel
      /\ runningProcess # 0
      /\ procs[runningProcess].cancelReq)
     => /\ killTimers' = killTimers
        /\ outputChannel' = outputChannel]_vars

\* C13: cancel() with runningProcess = null changes nothing: no signal, no
\* timer, no log line, and results and later jobs are as they would be.
C13_CancelWhenIdleIsNoOp ==
  [][(Cancel /\ runningProcess = 0)
     => UNCHANGED <<configManager, resultsView, procs, runningProcess, killTimers, files,
                    outputChannel>>]_vars

CancelLogged ==
  BagIn(Line("Cancelling running operation..."), outputChannel)

C13_Witness ==
  /\ cancelCalls >= 1
  /\ procs[1].st = "closed" /\ procs[1].resolved
  /\ ~procs[1].cancelReq /\ ~procs[1].sigterm /\ ~procs[1].sigkill
  /\ procs[1].result.success
  /\ ~CancelLogged
  /\ killTimers = 0

\* C14: every returned result populates exactly one outcome: cancelled
\* implies not success, success implies not cancelled and no error, and data
\* is present exactly when success.
C14_ExactlyOneOutcome ==
  \A p \in ProcIds :
    procs[p].resolved =>
      LET r == procs[p].result
      IN /\ r.cancelled => ~r.success
         /\ r.success => (~r.cancelled /\ r.error = Undef)
         /\ (r.data # Undef) <=> r.success

\* The causes of a result that is not a decoded document.
SpawnFailed(p) == procs[p].resolved /\ procs[p].seen.code = ""
ExitedNonZero(p) ==
  /\ procs[p].resolved /\ ~procs[p].cancelled
  /\ procs[p].seen.code = "1" /\ procs[p].stdout = <<>>
OperatorCancelled(p) ==
  procs[p].resolved /\ procs[p].tokenFired /\ ~procs[p].timedOut
TimedOut(p) ==
  procs[p].resolved /\ procs[p].timedOut /\ ~procs[p].tokenFired

Cause(p) ==
  CASE SpawnFailed(p) -> "process-start-failure"
    [] ExitedNonZero(p) -> "exit"
    [] OperatorCancelled(p) -> "cancelled"
    [] TimedOut(p) -> "timeout"
    [] OTHER -> "none"

\* C15: the results for a spawn failure, a non-zero exit without output, an
\* operator's cancellation and a timeout are pairwise distinguishable, and
\* the first two are never reported with cancelled = true.
C15_CausesDistinguishable ==
  \A p, q \in ProcIds :
    /\ (Cause(p) \in {"process-start-failure", "exit"})
         => ~procs[p].result.cancelled
    /\ (Cause(p) # "none" /\ Cause(q) # "none" /\ Cause(p) # Cause(q))
         => procs[p].result # procs[q].result

\* The decoder read, from the result file, the document wrapping payload d,
\* and d reports failed tests.
ReadFailedRun(p, d) ==
  /\ ReadFile(p)
  /\ procs[p].seen.file.content = DocText[SuccessDoc(d)]
  /\ TestRunOf[d].Summary.Failed > 0

Started(p) == procs[p].st # "none"

\* C17: the command-line arguments passed to spawn do not depend on the
\* caller's parameter values: two calls of the same operation have the same
\* arguments.
C17_ArgsIndependentOfParams ==
  \A p, q \in ProcIds :
    (Started(p) /\ Started(q) /\ procs[p].kind = procs[q].kind)
    => procs[p].args = procs[q].args

\* Two runTests/executeTests calls that differ only in the credential.
DifferOnlyInCredential(p, q) ==
  /\ Started(p) /\ Started(q)
  /\ procs[p].kind = procs[q].kind /\ procs[p].kind \in SideChannelKinds
  /\ procs[p].stamp = procs[q].stamp
  /\ [procs[p].params EXCEPT !.credential = Undef]
       = [procs[q].params EXCEPT !.credential = Undef]

\* C18: two runTests/executeTests calls that differ only in the credential
\* have the same spawn arguments, the same child environment and the same
\* lines written by the bridge; the credential is in the stdin payload.
C18_CredentialOnlyInStdin ==
  \A p, q \in ProcIds :
    DifferOnlyInCredential(p, q)
    => /\ procs[p].args = procs[q].args
       /\ procs[p].env = procs[q].env
       /\ procs[p].logged = procs[q].logged
       /\ procs[p].stdin[1].credential = procs[p].params.credential

C18_Witness ==
  \E p, q \in ProcIds :
    /\ DifferOnlyInCredential(p, q)
    /\ procs[p].params.credential = "user1:pw1"
    /\ procs[q].params.credential = "user2:pw2"
    /\ procs[p].stdin # procs[q].stdin
    /\ procs[p].env = procs[q].env

\* The second runner decoded the stdout of job p, whose final object begins
\* with the Success or the Data key.
DecodedStdout(p) ==
  /\ procs[p].kind \in BuildKinds
  /\ Decoded(p) /\ ~procs[p].cancelled
  /\ IsJsonStart(procs[p].final, 1)

\* C19: from a stdout made of noise followed by a final result object whose
\* string values hold braces and escaped quotes, the stdout decoding path
\* extracts exactly that final object.
C19_ExtractsFinalObject ==
  \A p \in ProcIds :
    DecodedStdout(p) => procs[p].extracted = procs[p].final

\* The text without its escape sequences: ESC [ ... letter, ESC ] ... BEL,
\* and any other ESC.
RECURSIVE WithoutEscapes(_, _)
WithoutEscapes(s, i) ==
  IF i > Len(s) THEN <<>>
  ELSE IF MatchEnd("csi", s, i) > 0
  THEN WithoutEscapes(s, MatchEnd("csi", s, i) + 1)
  ELSE IF MatchEnd("osc", s, i) > 0
  THEN WithoutEscapes(s, MatchEnd("osc", s, i) + 1)
  ELSE IF s[i] = ESC THEN WithoutEscapes(s, i + 1)
  ELSE <<s[i]>> \o WithoutEscapes(s, i + 1)

Stripped(p) == procs[p].st = "stripped"

\* C20 (as claimed): stripAnsiCodes removes exactly the escape sequences and
\* leaves every other character as it is; a text without ESC is unchanged.
C20_RemovesExactlyEscapes ==
  \A p \in ProcIds :
    Stripped(p) => procs[p].stripped = WithoutEscapes(procs[p].stdout, 1)

\* a is b with some characters left out.
RECURSIVE IsSubsequence(_, _)
IsSubsequence(a, b) ==
  IF a = <<>> THEN TRUE
  ELSE IF b = <<>> THEN FALSE
  ELSE IF Head(a) = Head(b) THEN IsSubsequence(Tail(a), Tail(b))
  ELSE IsSubsequence(a, Tail(b))

HasControl(s) == \E i \in 1..Len(s) : s[i] \in ControlChars

\* C20 (amended): stripAnsiCodes only leaves characters out, keeping the
\* others in order; what it returns holds no ESC and no other control
\* character (tab, line feed and carriage return apart); a text without such
\* a control character is returned unchanged.
C20_RemovesEscapesAndControl ==
  \A p \in ProcIds :
    Stripped(p) =>
      /\ IsSubsequence(procs[p].stripped, procs[p].stdout)
      /\ ~HasControl(procs[p].stripped)
      /\ ~HasControl(procs[p].stdout) => procs[p].stripped = procs[p].stdout

C20_Witness ==
  \E p \in ProcIds :
    /\ Stripped(p)
    /\ procs[p].stdout = <<ESC, "[", "m", "x">>
    /\ procs[p].stripped = <<"x">>

ProgressJobDone(p) == procs[p].kind \in BuildKinds /\ procs[p].st = "closed"

\* The markers a child printed, in the order it printed them.
EmittedMarkers(p) == SelectSeq(procs[p].emits, LAMBDA u : u \in ProgressIds)

\* C21: every progress marker the child prints, several in one chunk or one
\* split over two chunks included, gives exactly one onProgress call with its
\* JSON, in the order printed, and no marker text is in the decoded result.
C21_EveryMarkerOneCall ==
  \A p \in ProcIds :
    ProgressJobDone(p) /\ ~procs[p].cancelled =>
      /\ procs[p].onProgress = EmittedMarkers(p)
      /\ procs[p].extracted = procs[p].final

\* C22: every stdout chunk and every stderr chunk received is appended to the
\* output channel, whatever it contains and however the job ends.
C22_EveryChunkMirrored ==
  \A p \in ProcIds :
    procs[p].kind \in BuildKinds =>
      /\ \A i \in 1..Len(procs[p].chunks) :
           BagIn([tag |-> "stdout", text |-> procs[p].chunks[i]], outputChannel)
      /\ procs[p].stderr # "" =>
           BagIn(Line("[STDERR] stderr text"), outputChannel)

\* C23: any two invocations of executeWithProgress are given different
\* result-channel paths.
C23_DistinctResultPaths ==
  \A p, q \in ProcIds :
    (/\ p # q
     /\ Started(p) /\ Started(q)
     /\ procs[p].kind \in SideChannelKinds
     /\ procs[q].kind \in SideChannelKinds)
    => procs[p].env.BC_RESULT_FILE # procs[q].env.BC_RESULT_FILE

ParsedTrace(p) == procs[p].st = "parsed"
HasFrame(p) == procs[p].frame # NoFrame

\* C24: Get-ParsedStackTrace returns the codeunit name, numeric id, method
\* and line number for every trace that contains a frame
\* name(digits).method line digits, and null without an error for an empty
\* text and a text without a frame; a failure record without a match keeps
\* LineNumber null.
C24_ParsesEveryFrame ==
  \A p \in ProcIds :
    ParsedTrace(p) =>
      /\ HasFrame(p) =>
           /\ procs[p].stackInfo.status = "value"
           /\ procs[p].stackInfo.codeunit
                = Trim(TraceMatch(procs[p].trace)[1].codeunit)
           /\ procs[p].stackInfo.codeunitId = Numeral(procs[p].frame.id)
           /\ procs[p].stackInfo.method = procs[p].frame.method
           /\ procs[p].stackInfo.lineNumber = Numeral(procs[p].frame.line)
      /\ ~HasFrame(p) =>
           /\ procs[p].stackInfo = NoStackInfo
           /\ procs[p].lineNumber = <<>>

\* C25: the forced-kill timer of cancel() never affects a different job:
\* when every process was spawned, it sends SIGKILL only to a process that
\* was the running one when cancel() was called, and clears the runner's
\* handle to a running process only if it is such a process.
C25_KillTimerOnlyItsJob ==
  [][(\A q \in ProcIds : procs[q].st # "failed") =>
       /\ \A p \in ProcIds :
            (procs'[p].sigkill /\ ~procs[p].sigkill) => procs[p].cancelReq
       /\ (/\ killTimers' < killTimers
           /\ runningProcess # 0 /\ runningProcess' = 0
           /\ procs[runningProcess].st = "running")
            => procs[runningProcess].cancelReq]_vars

\* isRunning(), lines 328-330.
IsRunning == runningProcess # 0

\* C26: while the process of the one runTests/executeTests job is running,
\* isRunning() is true and cancel() signals that process, whatever other
\* operations of the runner start or close in the meantime.
C26_TestRunStaysCancellable ==
  \A p \in ProcIds :
    (/\ procs[p].kind \in SideChannelKinds
     /\ procs[p].st = "running" /\ ~procs[p].sigkill
     /\ \A q \in ProcIds \ {p} : procs[q].kind \notin SideChannelKinds)
    => IsRunning /\ runningProcess = p

\* C27: from a stdout that ends with one wrapper {Success, Data}, extractJson
\* returns that wrapper also when the object in Data begins with a Success
\* key, and the decoded success flag is the wrapper's.
C27_OutermostWrapper ==
  \A p \in ProcIds :
    (DecodedStdout(p) /\ \E w \in BOOLEAN \X BOOLEAN :
                           procs[p].final = WrapperObject(w[1], w[2]))
    => /\ procs[p].extracted = procs[p].final
       /\ procs[p].result.success

\* C28: loadConfig(p) never returns a config loaded from another path than p:
\* whenever _cachedConfig is set, _cachedConfigPath is the path it was loaded
\* from.
C28_CachedConfigMatchesPath ==
  /\ configManager.cachedConfig # Undef
       => configManager.cachedConfigPath = configManager.cachedConfig
  /\ configManager.returned.config
       \in {Undef, configManager.returned.asked}

\* C29: after refresh() the tree view eventually displays the results that
\* refresh loaded, and of overlapping refreshes the most recently issued one
\* determines the stored results: from the moment refresh() has been called,
\* the view comes to display the results that the latest refresh has
\* loaded, and these are the stored results.
RefreshCalled == resultsView.refreshed > 0
ShowsLatestRefresh ==
  /\ resultsView.loaded.seq = resultsView.refreshed
  /\ resultsView.results = resultsView.loaded.data
  /\ resultsView.displayed = resultsView.loaded.data
C29_RefreshEventuallyDisplayed == RefreshCalled ~> ShowsLatestRefresh

\* C30: in the exported document, suggestedActions starts with "Fix
\* compilation errors before running tests" exactly when at least one
\* supplied compilation result failed; with no compilation results, or with
\* all of them successful, the entry is absent.
Exported(p) == procs[p].st = "exported"
StartsWithFix(p) ==
  /\ Len(procs[p].export.suggestedActions) > 0
  /\ procs[p].export.suggestedActions[1] = FixCompilation
SomeCompilationFailed(p) ==
  /\ procs[p].export.supplied
  /\ \E i \in 1..Len(procs[p].export.compilation) :
       ~procs[p].export.compilation[i]
C30_FixIffCompilationFailed ==
  \A p \in ProcIds :
    Exported(p) =>
      /\ StartsWithFix(p) <=> SomeCompilationFailed(p)
      /\ ~SomeCompilationFailed(p) =>
           \A i \in 1..Len(procs[p].export.suggestedActions) :
             procs[p].export.suggestedActions[i] # FixCompilation

====
